---- MODULE Spec2Model ----
(* Zenipay payment portal: the payments router (create / verify /          *)
(* submit-to-swift), its authentication and audit middleware, and the      *)
(* employee dashboard's pre-validation flow, as state machines.            *)
(* Strings are tuples of one-character strings, so that the regular        *)
(* expressions, toUpperCase, trim and parseFloat are computed on them.     *)
EXTENDS Integers, Sequences, FiniteSets, Bags, TLC

VARIABLES
    users,          \* users table: id -> [role, is_active]
    transactions,   \* transactions table: sequence of rows, the index is the id
    audit_logs,     \* audit_logs table: a bag of rows
    reqs,           \* the HTTP requests: slot -> request record
    variant,        \* which payments router is mounted: "fourState" | "twoTerminal"
    dash,           \* the pre-validation dashboard (EmployeeDashboard component)
    ext,            \* the last call the backend made to the external pre-validation API
    swiftAuth       \* swiftAuthService: its token cache, its calls, the clock

vars == <<users, transactions, audit_logs, reqs, variant, dash, ext, swiftAuth>>

-----------------------------------------------------------------------------
(* Bounds *)

MaxReq == 2         \* HTTP requests issued in one behaviour
MaxTx == 2          \* transactions that create may insert
MaxTime == 0        \* Date.now() takes a value in 0..MaxTime

Slots == 1..MaxReq
Times == 0..MaxTime

-----------------------------------------------------------------------------
(* Characters and strings *)

UpperChars == {"A","B","C","D","E","F","G","H","I","J","K","L","M",
               "N","O","P","Q","R","S","T","U","V","W","X","Y","Z"}
LowerChars == {"a","b","c","d","e","f","g","h","i","j","k","l","m",
               "n","o","p","q","r","s","t","u","v","w","x","y","z"}
DigitChars == <<"0","1","2","3","4","5","6","7","8","9">>
Digits == {DigitChars[k] : k \in 1..10}

LowerSeq == <<"a","b","c","d","e","f","g","h","i","j","k","l","m",
              "n","o","p","q","r","s","t","u","v","w","x","y","z">>
UpperSeq == <<"A","B","C","D","E","F","G","H","I","J","K","L","M",
              "N","O","P","Q","R","S","T","U","V","W","X","Y","Z">>

IsDigit(c) == c \in Digits
IsUpper(c) == c \in UpperChars
IsSpace(c) == c = " "
DigitVal(c) == (CHOOSE k \in 1..10 : DigitChars[k] = c) - 1

\* String.prototype.toUpperCase, one character
UpperChar(c) ==
    IF c \in LowerChars THEN UpperSeq[CHOOSE k \in 1..26 : LowerSeq[k] = c] ELSE c

toUpperCase(s) == [k \in 1..Len(s) |-> UpperChar(s[k])]

RECURSIVE TrimLeft(_)
TrimLeft(s) == IF s # <<>> /\ IsSpace(Head(s)) THEN TrimLeft(Tail(s)) ELSE s

RECURSIVE TrimRight(_)
TrimRight(s) ==
    IF s # <<>> /\ IsSpace(s[Len(s)]) THEN TrimRight(SubSeq(s, 1, Len(s) - 1)) ELSE s

\* String.prototype.trim
trim(s) == TrimRight(TrimLeft(s))

AllChars(s, P(_)) == \A k \in 1..Len(s) : P(s[k])
IsUpperOrDigit(c) == IsUpper(c) \/ IsDigit(c)

-----------------------------------------------------------------------------
(* Numbers: a JavaScript number is [nan, milli], its value in thousandths *)

NaN == [nan |-> TRUE, milli |-> 0]
Num(m) == [nan |-> FALSE, milli |-> m]

RECURSIVE TakeDigits(_)
TakeDigits(s) ==
    IF s # <<>> /\ IsDigit(Head(s)) THEN <<Head(s)>> \o TakeDigits(Tail(s)) ELSE <<>>

RECURSIVE DigitsToNat(_)
DigitsToNat(ds) ==
    IF ds = <<>> THEN 0
    ELSE 10 * DigitsToNat(SubSeq(ds, 1, Len(ds) - 1)) + DigitVal(ds[Len(ds)])

\* the fraction digits as thousandths (digits after the third are dropped)
FracMilli(ds) ==
    LET d(k) == IF k <= Len(ds) THEN DigitVal(ds[k]) ELSE 0
    IN  100 * d(1) + 10 * d(2) + d(3)

Drop(s, n) == SubSeq(s, n + 1, Len(s))

\* The longest prefix of s that is a StrDecimalLiteral: [ok, milli, used].
\* Exponents, hexadecimal and Infinity are outside the alphabet of the inputs.
DecimalPrefix(s) ==
    LET signed == s # <<>> /\ Head(s) \in {"-", "+"}
        sgn    == IF signed /\ Head(s) = "-" THEN -1 ELSE 1
        body   == IF signed THEN Tail(s) ELSE s
        ints   == TakeDigits(body)
        rest   == Drop(body, Len(ints))
        dotted == rest # <<>> /\ Head(rest) = "."
        fracs  == IF dotted THEN TakeDigits(Tail(rest)) ELSE <<>>
        hasNum == ints # <<>> \/ fracs # <<>>
        \* "1." is a literal, "." alone is not
        useDot == dotted /\ hasNum
        used   == (IF signed THEN 1 ELSE 0) + Len(ints)
                  + (IF useDot THEN 1 + Len(fracs) ELSE 0)
    IN  [ok    |-> hasNum,
         milli |-> sgn * (1000 * DigitsToNat(ints) + FracMilli(fracs)),
         used  |-> used]

\* parseFloat(string): the numeric prefix after leading white space, or NaN
parseFloat(s) ==
    LET p == DecimalPrefix(TrimLeft(s))
    IN  IF p.ok THEN Num(p.milli) ELSE NaN

\* Number(string), as isNaN applies it: the whole trimmed string, "" is 0
ToNumber(s) ==
    LET t == trim(s)
        p == DecimalPrefix(t)
    IN  IF t = <<>> THEN Num(0)
        ELSE IF p.ok /\ p.used = Len(t) THEN Num(p.milli)
        ELSE NaN

isNaN(s) == ToNumber(s).nan

-----------------------------------------------------------------------------
(* utils/auth.js: the regular expressions and validatePaymentInput *)

\* /^[A-Z0-9]{6,20}$/
ACCOUNT_NUMBER_REGEX(s) == Len(s) >= 6 /\ Len(s) <= 20 /\ AllChars(s, IsUpperOrDigit)

\* /^[A-Z]{6}[A-Z0-9]{2}([A-Z0-9]{3})?$/
SWIFT_CODE_REGEX(s) ==
    /\ Len(s) \in {8, 11}
    /\ \A k \in 1..6 : IsUpper(s[k])
    /\ \A k \in 7..Len(s) : IsUpperOrDigit(s[k])

\* /^[A-Z]{3}$/
CURRENCY_REGEX(s) == Len(s) = 3 /\ AllChars(s, IsUpper)

ErrAmount == "Amount must be a positive number"
ErrCurrency == "Currency must be a valid 3-letter code (e.g., USD, EUR, ZAR)"
ErrAccount == "Payee account must be 6-20 alphanumeric characters"
ErrSwift == "SWIFT code must be 8 or 11 characters (e.g., SBZAZAJJ)"
ErrName == "Payee name must be at least 2 characters"

\* a ceiling that the limit itself exceeds
GreaterOrEqual(n, m) == ~n.nan /\ n.milli >= m

\* a comparison with NaN is false
LessEqZero(n) == ~n.nan /\ n.milli <= 0
GreaterThan(n, m) == ~n.nan /\ n.milli > m

\* validatePaymentInput(data): the list of error messages; "" stands for a
\* missing field as well (both are falsy)
validatePaymentInput(data) ==
    (IF data.amount = <<>> \/ isNaN(data.amount) \/ LessEqZero(parseFloat(data.amount))
        THEN <<ErrAmount>> ELSE <<>>)
    \o (IF data.currency = <<>> \/ ~CURRENCY_REGEX(data.currency)
        THEN <<ErrCurrency>> ELSE <<>>)
    \o (IF data.payeeAccount = <<>> \/ ~ACCOUNT_NUMBER_REGEX(data.payeeAccount)
        THEN <<ErrAccount>> ELSE <<>>)
    \o (IF data.swiftCode = <<>> \/ ~SWIFT_CODE_REGEX(data.swiftCode)
        THEN <<ErrSwift>> ELSE <<>>)
    \o (IF data.payeeName = <<>> \/ Len(trim(data.payeeName)) < 2
        THEN <<ErrName>> ELSE <<>>)

\* the error of a 400 answer of router.post('/create')
ErrValidation == "Validation failed"
ErrLimit == "Amount exceeds maximum limit of 100,000"

\* the mock limit of router.post('/create'), in thousandths
AmountLimitMilli == 100000000

\* utils/validation.ts PATTERNS.AMOUNT: /^\d+(\.\d{1,2})?$/
AMOUNT_PATTERN(s) ==
    LET ints  == TakeDigits(s)
        rest  == Drop(s, Len(ints))
        fracs == IF rest = <<>> THEN <<>> ELSE TakeDigits(Tail(rest))
    IN  /\ ints # <<>>
        /\ rest # <<>> => ( /\ Head(rest) = "."
                            /\ Len(fracs) \in {1, 2}
                            /\ Len(rest) = 1 + Len(fracs) )

\* null, undefined and SQL NULL
NULL == "NULL"

MsgRequired == "This field is required"
MsgAmount == "Amount must be a positive number with up to 2 decimal places"
MsgAmountZero == "Amount must be greater than 0"
MsgAmountExceeds == "Amount cannot exceed 100,000"

\* utils/validation.ts validateAmount(amount), the check of the payment form:
\* the message, or NULL
validateAmount(amount) ==
    IF amount = <<>> THEN MsgRequired
    ELSE IF ~AMOUNT_PATTERN(amount) THEN MsgAmount
    ELSE IF LessEqZero(parseFloat(amount)) THEN MsgAmountZero
    ELSE IF GreaterThan(parseFloat(amount), AmountLimitMilli) THEN MsgAmountExceeds
    ELSE NULL

\* amount DECIMAL(15,2): the stored amount in cents, rounded half up
DecimalCents(n) == (n.milli + 5) \div 10

-----------------------------------------------------------------------------
(* Users and tokens *)

UserIds == {"c1", "e1", "z1"}

\* the employees db.js seeds, the customer create-test-customer.js adds, and
\* a deactivated account
InitUsers ==
    [u \in UserIds |->
        IF u = "c1" THEN [role |-> "customer", is_active |-> TRUE]
        ELSE IF u = "z1" THEN [role |-> "employee", is_active |-> FALSE]
        ELSE [role |-> "employee", is_active |-> TRUE]]

\* an Authorization header: none, one whose token does not verify, a valid
\* token of a user id that is not in the table, or a valid token of a user
Tokens == {"none", "bad", "gone"} \cup UserIds

NoUser == "none"

\* extractToken + verifyToken: the decoded id, or NoUser when there is no
\* token or verifyToken throws
DecodedId(token) == IF token \in {"none", "bad"} THEN NoUser ELSE token

\* authenticateToken: 401, or 0 and req.user
authenticateToken(token) ==
    LET id == DecodedId(token)
    IN  IF id = NoUser THEN [code |-> 401, user |-> NoUser]
        ELSE IF id \notin DOMAIN users THEN [code |-> 401, user |-> NoUser]
        ELSE IF ~users[id].is_active THEN [code |-> 401, user |-> NoUser]
        ELSE [code |-> 0, user |-> id]

\* requireRole that lets every authenticated user through
requireRoleAny(role, user) == IF user = NoUser THEN 401 ELSE 0

\* requireRole(roles)(req): 401 without req.user, 403 for another role, else 0
requireRole(role, user) ==
    IF user = NoUser THEN 401
    ELSE IF users[user].role # role THEN 403
    ELSE 0

requireCustomer(user) == requireRole("customer", user)
requireEmployee(user) == requireRole("employee", user)

-----------------------------------------------------------------------------
(* Rows *)

\* the statuses the two routers write
Statuses == {"pending", "verified", "rejected", "completed", "failed"}

\* a create that inserts the row as already verified
CreateRowVerified(user, body) ==
    [customer_id    |-> user,
     amount         |-> DecimalCents(parseFloat(body.amount)),
     currency       |-> toUpperCase(body.currency),
     payee_account  |-> toUpperCase(body.payeeAccount),
     swift_code     |-> toUpperCase(body.swiftCode),
     payee_name     |-> trim(body.payeeName),
     status         |-> "verified",
     employee_notes |-> NULL]

\* router.post('/create'): the row INSERTed for a validated body
CreateRow(user, body) ==
    [customer_id    |-> user,
     amount         |-> DecimalCents(parseFloat(body.amount)),
     currency       |-> toUpperCase(body.currency),
     payee_account  |-> toUpperCase(body.payeeAccount),
     swift_code     |-> toUpperCase(body.swiftCode),
     payee_name     |-> trim(body.payeeName),
     status         |-> "pending",
     employee_notes |-> NULL]

\* a SELECT that forgets the status condition
SelectById(id, status) ==
    IF id \in DOMAIN transactions THEN <<transactions[id]>> ELSE <<>>

\* SELECT * FROM transactions WHERE id = ? AND status = ? : the rows found
SelectByIdAndStatus(id, status) ==
    IF id \in DOMAIN transactions /\ transactions[id].status = status
    THEN <<transactions[id]>> ELSE <<>>

\* UPDATE transactions SET status = ?, employee_notes = ? WHERE id = ?
UpdateStatusAndNotes(id, status, notes) ==
    IF id \in DOMAIN transactions
    THEN [transactions EXCEPT ![id].status = status, ![id].employee_notes = notes]
    ELSE transactions

\* an UPDATE that resets the amount with the status
UpdateStatusAndAmount(id, status) ==
    IF id \in DOMAIN transactions
    THEN [transactions EXCEPT ![id].status = status, ![id].amount = 0]
    ELSE transactions

\* UPDATE transactions SET status = ? WHERE id = ?
UpdateStatus(id, status) ==
    IF id \in DOMAIN transactions
    THEN [transactions EXCEPT ![id].status = status]
    ELSE transactions

NoRow ==
    [customer_id |-> NoUser, amount |-> 0, currency |-> <<>>, payee_account |-> <<>>,
     swift_code |-> <<>>, payee_name |-> <<>>, status |-> "", employee_notes |-> NULL]

NoRef == [prefix |-> "", time |-> 0, tx |-> 0]

\* `SWIFT-${Date.now()}-${transactionId}`
SwiftSubmissionId(now, id) == [prefix |-> "SWIFT", time |-> now, tx |-> id]

NoDetails ==
    [transactionId |-> 0, swiftSubmissionId |-> NoRef, amount |-> 0, currency |-> <<>>,
     payeeAccount |-> <<>>, swiftCode |-> <<>>, route |-> "", statusCode |-> 0]

\* the transactionId column of audit_logs: the four-state schema has none,
\* the other router writes the id
SubmissionTxColumn(id) == IF variant = "fourState" THEN NULL ELSE ToString(id)

\* an audit row that names the payment's owner instead of the employee
SubmissionAuditRowOfOwner(user, id, ref, row) ==
    [user_id       |-> row.customer_id,
     action        |-> "SWIFT_SUBMISSION",
     transactionId |-> SubmissionTxColumn(id),
     details       |-> [NoDetails EXCEPT
                           !.transactionId = id,
                           !.swiftSubmissionId = ref,
                           !.amount = row.amount,
                           !.currency = row.currency,
                           !.payeeAccount = row.payee_account,
                           !.swiftCode = row.swift_code]]

\* the audit_logs row submit-to-swift INSERTs
SubmissionAuditRow(user, id, ref, row) ==
    [user_id       |-> user,
     action        |-> "SWIFT_SUBMISSION",
     transactionId |-> SubmissionTxColumn(id),
     details       |-> [NoDetails EXCEPT
                           !.transactionId = id,
                           !.swiftSubmissionId = ref,
                           !.amount = row.amount,
                           !.currency = row.currency,
                           !.payeeAccount = row.payee_account,
                           !.swiftCode = row.swift_code]]

RoutePath(kind) ==
    CASE kind = "create" -> "POST /create"
      [] kind = "verify" -> "PUT /verify/:transactionId"
      [] kind = "submit" -> "POST /submit-to-swift/:transactionId"
      [] kind = "get" -> "GET /:transactionId"
      [] kind = "my" -> "GET /my-transactions"

\* the first path segment after /payments/ of req.originalUrl
UrlSegment(kind) ==
    CASE kind = "create" -> "create"
      [] kind = "verify" -> "verify"
      [] kind = "submit" -> "submit-to-swift"
      [] kind = "my" -> "my-transactions"

\* the audit_logs row the auditLog middleware INSERTs after the response
RequestAuditRow(r) ==
    [user_id       |-> r.user,
     action        |-> RoutePath(r.kind),
     transactionId |-> IF variant = "fourState" THEN NULL
                       ELSE IF r.kind = "get" THEN ToString(r.tx)
                       ELSE UrlSegment(r.kind),
     details       |-> [NoDetails EXCEPT
                           !.transactionId = r.tx,
                           !.route = RoutePath(r.kind),
                           !.statusCode = r.resp]]

\* an INSERT that overwrites the table
InsertOverwriting(bag, row) == SetToBag({row})

Insert(bag, row) == bag (+) SetToBag({row})

-----------------------------------------------------------------------------------------------------------------------------------------------------
(* HTTP requests to the payments router *)

NoBody ==
    [amount |-> <<>>, currency |-> <<>>, payeeAccount |-> <<>>,
     swiftCode |-> <<>>, payeeName |-> <<>>]

\* a request: pc is "idle" before it arrives, "update" / "audit" while its
\* handler awaits the database, "responded" once res.json has run and "done"
\* when nothing of it is left to run. overlap names the requests on the same
\* transaction that were in flight when this one passed its guard. error and
\* details are those of the JSON body that create answers, list the ids of
\* the rows that my-transactions answers.
IdleReq ==
    [pc |-> "idle", kind |-> "none", token |-> "none", user |-> NoUser, tx |-> 0,
     body |-> NoBody, verified |-> "", notes |-> "", row |-> NoRow,
     newStatus |-> "", resp |-> 0, logged |-> FALSE, ref |-> NoRef, overlap |-> {},
     error |-> "", details |-> <<>>, list |-> <<>>]

InFlight(r) == r.pc \in {"update", "audit"}
Answered(r) == r.pc \in {"responded", "done"}

\* slots are taken in order
NextSlot(i) == reqs[i].pc = "idle" /\ \A j \in Slots : j < i => reqs[j].pc # "idle"

\* The auditLog callback runs by setImmediate right after res.send; its INSERT
\* is read by no handler and commutes with every other statement, so it is
\* taken before the next handler step.
Settled == \A j \in Slots : reqs[j].pc # "responded"

NewReq(kind, token) == [IdleReq EXCEPT !.kind = kind, !.token = token]

\* res.status(code).json(...) behind the auditLog middleware: the wrapped
\* res.send schedules the request's audit row
Respond(r, code) == [r EXCEPT !.pc = "responded", !.resp = code, !.logged = TRUE]

\* authenticateToken answers before auditLog has wrapped res.send
RespondUnlogged(r, code) == [r EXCEPT !.pc = "responded", !.resp = code]

\* the handler passed its guard and awaits its UPDATE
PassGuard(r) ==
    [r EXCEPT !.pc = "update",
              !.overlap = {j \in Slots : InFlight(reqs[j]) /\ reqs[j].tx = r.tx}]

\* the path parameter is a UUID: /^[0-9a-f]{8}-...-[0-9a-f]{12}$/i ; 0 stands
\* for a parameter that is not one
IsUuid(tx) == tx # 0

\* the status the verify handler's SELECT asks for
VerifyGuardStatus == "pending"

\* the status the submit handler's SELECT asks for
SubmitGuardStatus == IF variant = "fourState" THEN "verified" ELSE "pending"

\* verified ? 'verified' : 'rejected'  /  verified ? 'completed' : 'failed'
VerifyNewStatus(verified) ==
    IF variant = "fourState"
    THEN (IF verified = "true" THEN "verified" ELSE "rejected")
    ELSE (IF verified = "true" THEN "completed" ELSE "failed")

\* notes || null
NotesOrNull(notes) == IF notes = "" THEN NULL ELSE notes

\* the verify handler's UPDATE: the four-state router stores the notes too
VerifyWrite(r) ==
    IF variant = "fourState"
    THEN UpdateStatusAndNotes(r.tx, r.newStatus, NotesOrNull(r.notes))
    ELSE UpdateStatus(r.tx, r.newStatus)

\* the submit handler's UPDATE
SubmitWrite(r) == UpdateStatus(r.tx, "completed")

\* router.post('/create', requireCustomer, paymentRateLimit, ...)
CreateRequest(i, token, body, limited) ==
    /\ NextSlot(i)
    /\ Settled
    /\ LET r0     == NewReq("create", token)
           auth   == authenticateToken(token)
           r1     == [r0 EXCEPT !.user = auth.user]
           r2     == [r1 EXCEPT !.body = body]
           role   == requireCustomer(auth.user)
           errors == validatePaymentInput(body)
           parsedAmount == parseFloat(body.amount)
       IN  IF auth.code # 0 THEN
               /\ reqs' = [reqs EXCEPT ![i] = RespondUnlogged(r0, auth.code)]
               /\ UNCHANGED transactions
           ELSE IF role # 0 THEN
               /\ reqs' = [reqs EXCEPT ![i] = Respond(r1, role)]
               /\ UNCHANGED transactions
           ELSE IF limited THEN
               /\ reqs' = [reqs EXCEPT ![i] = Respond(r1, 429)]
               /\ UNCHANGED transactions
           ELSE IF Len(errors) > 0 THEN
               /\ reqs' = [reqs EXCEPT ![i] =
                              Respond([r2 EXCEPT !.error = ErrValidation,
                                                 !.details = errors], 400)]
               /\ UNCHANGED transactions
           ELSE IF GreaterThan(parsedAmount, AmountLimitMilli) THEN
               /\ reqs' = [reqs EXCEPT ![i] = Respond([r2 EXCEPT !.error = ErrLimit], 400)]
               /\ UNCHANGED transactions
           ELSE IF parsedAmount.nan THEN
               \* the INSERT of NaN throws: catch, 500
               /\ reqs' = [reqs EXCEPT ![i] = Respond(r2, 500)]
               /\ UNCHANGED transactions
           ELSE
               /\ Len(transactions) < MaxTx
               /\ transactions' = Append(transactions, CreateRow(auth.user, body))
               /\ reqs' = [reqs EXCEPT ![i] =
                              Respond([r2 EXCEPT !.tx = Len(transactions) + 1], 201)]
    /\ UNCHANGED <<users, audit_logs, variant, dash, ext, swiftAuth>>

\* router.put('/verify/:transactionId', requireEmployee, ...) up to its SELECT
VerifyRoute(i, token, tx, verified, notes) ==
    /\ NextSlot(i)
    /\ Settled
    /\ LET r0   == NewReq("verify", token)
           auth == authenticateToken(token)
           r1   == [r0 EXCEPT !.user = auth.user]
           r2   == [r1 EXCEPT !.tx = tx]
           r3   == [r2 EXCEPT !.verified = verified, !.notes = notes]
           role == requireEmployee(auth.user)
           rows == SelectByIdAndStatus(tx, VerifyGuardStatus)
       IN  reqs' = [reqs EXCEPT ![i] =
               IF auth.code # 0 THEN RespondUnlogged(r0, auth.code)
               ELSE IF role # 0 THEN Respond(r1, role)
               ELSE IF variant = "twoTerminal" /\ ~IsUuid(tx) THEN Respond(r2, 400)
               ELSE IF verified \notin {"true", "false"} THEN
                   Respond([r2 EXCEPT !.verified = verified], 400)
               ELSE IF Len(rows) = 0 THEN Respond(r3, 404)
               ELSE PassGuard([r3 EXCEPT !.newStatus = VerifyNewStatus(verified)])]
    /\ UNCHANGED <<users, transactions, audit_logs, variant>>

\* the verify handler's UPDATE and its response
VerifyRouteUpdate(i) ==
    /\ Settled
    /\ reqs[i].kind = "verify"
    /\ reqs[i].pc = "update"
    /\ transactions' = VerifyWrite(reqs[i])
    /\ reqs' = [reqs EXCEPT ![i] = Respond(reqs[i], 200)]
    /\ UNCHANGED <<users, audit_logs, variant>>

\* a verify request of a client other than the dashboard
VerifyRequest(i, token, tx, verified, notes) ==
    /\ VerifyRoute(i, token, tx, verified, notes)
    /\ UNCHANGED <<dash, ext, swiftAuth>>

\* the slot holds a request the dashboard sent and still waits for
DashOwns(i) ==
    \E f \in DOMAIN dash.flow : dash.flow[f].pc = "update" /\ dash.flow[f].slot = i

VerifyUpdate(i) ==
    /\ ~DashOwns(i)
    /\ VerifyRouteUpdate(i)
    /\ UNCHANGED <<dash, ext, swiftAuth>>

\* router.post('/submit-to-swift/:transactionId', requireEmployee, ...) up to
\* its SELECT and the swiftSubmissionId
SubmitRoute(i, token, tx, now) ==
    /\ NextSlot(i)
    /\ Settled
    /\ LET r0   == NewReq("submit", token)
           auth == authenticateToken(token)
           r1   == [r0 EXCEPT !.user = auth.user]
           r2   == [r1 EXCEPT !.tx = tx]
           role == requireEmployee(auth.user)
           rows == SelectByIdAndStatus(tx, SubmitGuardStatus)
       IN  reqs' = [reqs EXCEPT ![i] =
               IF auth.code # 0 THEN RespondUnlogged(r0, auth.code)
               ELSE IF role # 0 THEN Respond(r1, role)
               ELSE IF variant = "twoTerminal" /\ ~IsUuid(tx) THEN Respond(r2, 400)
               ELSE IF Len(rows) = 0 THEN Respond(r2, 404)
               ELSE PassGuard([r2 EXCEPT !.row = rows[1],
                                         !.ref = SwiftSubmissionId(now, tx)])]
    /\ UNCHANGED <<users, transactions, audit_logs, variant>>

\* a submit request of a client other than the dashboard
SubmitRequest(i, token, tx, now) ==
    /\ SubmitRoute(i, token, tx, now)
    /\ UNCHANGED <<dash, ext, swiftAuth>>

\* the submit handler's UPDATE
SubmitUpdate(i) ==
    /\ Settled
    /\ reqs[i].kind = "submit"
    /\ reqs[i].pc = "update"
    /\ transactions' = SubmitWrite(reqs[i])
    /\ reqs' = [reqs EXCEPT ![i].pc = "audit"]
    /\ UNCHANGED <<users, audit_logs, variant, dash, ext, swiftAuth>>

\* the submit handler's INSERT INTO audit_logs and its response; an INSERT
\* that throws is caught: 500
SubmitRouteAudit(i, inserted) ==
    /\ Settled
    /\ reqs[i].kind = "submit"
    /\ reqs[i].pc = "audit"
    /\ LET r == reqs[i]
       IN  IF inserted THEN
               /\ audit_logs' = Insert(audit_logs,
                                       SubmissionAuditRow(r.user, r.tx, r.ref, r.row))
               /\ reqs' = [reqs EXCEPT ![i] = Respond(r, 200)]
           ELSE
               /\ UNCHANGED audit_logs
               /\ reqs' = [reqs EXCEPT ![i] = Respond(r, 500)]
    /\ UNCHANGED <<users, transactions, variant>>

SubmitAudit(i, inserted) ==
    /\ ~DashOwns(i)
    /\ SubmitRouteAudit(i, inserted)
    /\ UNCHANGED <<dash, ext, swiftAuth>>

\* what is kept of a request once nothing of it is left to run: of a success
\* that ran while another request on its transaction was in flight, what it
\* did and with whom it overlapped; of any other request nothing
Ended(i) ==
    LET r == reqs[i]
    IN  IF /\ r.resp \in {200, 201}
           /\ (r.overlap # {} \/ \E j \in Slots : i \in reqs[j].overlap)
        THEN [IdleReq EXCEPT !.pc = "done", !.kind = r.kind, !.tx = r.tx,
                             !.resp = r.resp, !.overlap = r.overlap]
        ELSE [IdleReq EXCEPT !.pc = "done"]

\* auditLog: the setImmediate callback after res.send, when req.user and
\* req.route are set; an INSERT that throws is caught and logged
AuditLogCallback(i, inserted) ==
    /\ reqs[i].pc = "responded"
    /\ audit_logs' = IF reqs[i].logged /\ inserted
                     THEN Insert(audit_logs, RequestAuditRow(reqs[i]))
                     ELSE audit_logs
    /\ reqs' = [reqs EXCEPT ![i] = Ended(i)]
    /\ UNCHANGED <<users, transactions, variant, dash, ext, swiftAuth>>

-----------------------------------------------------------------------------
(* The employee dashboard with pre-validation, and what it calls *)

MaxLoads == 2       \* loadDashboardData calls that wait for their response

TxIds == 1..MaxTx
FlowKinds == {"verify", "reject", "submit"}

Range(s) == {s[k] : k \in DOMAIN s}

\* the user object of useAuth(): what login / profile answer carries no email
\* and no bic; the component reads user?.email and user?.bic
RepoProfile == [id |-> "e1", email |-> NULL, bic |-> NULL]
Profiles ==
    { RepoProfile,
      [RepoProfile EXCEPT !.email = "e1@bank.example"],
      [RepoProfile EXCEPT !.email = "e1@bank.example", !.bic = "BANKZAJJ"] }

\* an absent entry of validationResults
NoResult == [message |-> <<>>, accountValid |-> NULL, swiftCodeValid |-> NULL]

MsgValidating == <<"Validating...">>
MsgNoIdentity == <<"Employee email or BIC not available for pre-validation.">>
MsgValidated == <<"Account and SWIFT code validated successfully.">>

\* a failure message that names no check
ValidationFailedMessageGeneric(isAccountValid, isSwiftCodeValid) == <<"Validation failed: ">>

\* 'Validation failed: ' + the checks that did not match
ValidationFailedMessage(isAccountValid, isSwiftCodeValid) ==
    <<"Validation failed: ">>
    \o (IF ~isAccountValid THEN <<"Beneficiary account invalid. ">> ELSE <<>>)
    \o (IF ~isSwiftCodeValid THEN <<"SWIFT code invalid.">> ELSE <<>>)

\* `Pre-validation failed: ${error.response?.data?.error || error.message}`
PreValidationFailedMessage(error) == <<"Pre-validation failed: ", error>>

BoolString(b) == IF b THEN "true" ELSE "false"

NotesVerified == "Transaction verified after Swift pre-validation"
NotesRejected == "Transaction rejected by employee"

NoFlow == [pc |-> "idle", slot |-> 0, accountValid |-> FALSE]

\* the component before its first loadDashboardData
Mounted(user) ==
    [user               |-> user,
     pendingTransactions |-> <<>>,
     validationResults  |-> [t \in TxIds |-> NoResult],
     flow               |-> [f \in TxIds \X FlowKinds |-> NoFlow],
     loads              |-> 1]

\* no dashboard is open
Unmounted == [Mounted(RepoProfile) EXCEPT !.loads = 0]

\* no call has been made
NoCall == [tx |-> 0, endpoint |-> "none", subjectDn |-> NULL, kind |-> "none", match |-> NULL]

\* what the pre-validation API can do with a call: the token cannot be got,
\* the POST fails without a response, it is answered non-2xx, or it is
\* answered 2xx with the match indicator "MTCH", another value, or none
ExtOutcomes ==
    { [kind |-> k, match |-> NULL] : k \in {"token_error", "network_error", "http_error"} }
    \cup { [kind |-> "ok", match |-> m] : m \in {"MTCH", "NMTC", NULL} }

NoData == [account_match |-> NULL, party_agent_match |-> NULL]

\* swiftPreValidationService.verifyBeneficiaryAccount: response.data, or the
\* error of getAccessToken / axios.post rethrown
verifyBeneficiaryAccount(o) ==
    IF o.kind = "ok"
    THEN [threw |-> FALSE, data |-> [NoData EXCEPT !.account_match = o.match]]
    ELSE [threw |-> TRUE, data |-> NoData]

\* swiftPreValidationService.validateDataProvider
validateDataProvider(o) ==
    IF o.kind = "ok"
    THEN [threw |-> FALSE, data |-> [NoData EXCEPT !.party_agent_match = o.match]]
    ELSE [threw |-> TRUE, data |-> NoData]

\* a pre-validation route that answers a failed call as an empty success
PreValidationRouteSwallow(token, subjectDn, result, failure) ==
    LET auth == authenticateToken(token)
    IN  IF auth.code # 0 THEN [status |-> auth.code, data |-> NoData, error |-> "Access token required"]
        ELSE [status |-> 200, data |-> result.data, error |-> ""]

\* router.post('/pre-validate-account') and router.post('/validate-data-provider'):
\* the response to the dashboard's request, given the service call's result
PreValidationRoute(token, subjectDn, result, failure) ==
    LET auth == authenticateToken(token)
        role == requireEmployee(auth.user)
    IN  IF auth.code # 0
        THEN [status |-> auth.code, data |-> NoData, error |-> "Access token required"]
        ELSE IF role # 0
        THEN [status |-> role, data |-> NoData, error |-> "Insufficient permissions"]
        ELSE IF subjectDn = NULL
        THEN [status |-> 400, data |-> NoData, error |-> "Missing details or subjectDn"]
        ELSE IF result.threw
        THEN [status |-> 500, data |-> NoData, error |-> failure]
        ELSE [status |-> 200, data |-> result.data, error |-> ""]

ErrPreValidation == "Payment pre-validation failed"
ErrDataProvider == "Data provider validation failed"

\* the error body of the verify route
VerifyError(code) ==
    CASE code = 400 -> "Verified field must be a boolean"
      [] code = 404 -> "Transaction not found or already processed"
      [] code = 401 -> "Access token required"
      [] code = 403 -> "Insufficient permissions"
      [] OTHER      -> "Transaction verification failed"

\* a match test that takes any indicator for a match
IsMatchAny(indicator) == indicator # "NMTC"

\* accountValidationResponse?.account_match === 'MTCH'
IsMatch(indicator) == indicator = "MTCH"

PendingPageLimit == 5

\* GET /payments/pending?page=1&limit=..: id and status of the rows WHERE
\* status = 'pending', oldest first, LIMIT ? OFFSET 0
PendingPage(limit) ==
    LET rows == SelectSeq([k \in 1..Len(transactions) |->
                              [id |-> k, status |-> transactions[k].status]],
                          LAMBDA r : r.status = "pending")
    IN  SubSeq(rows, 1, IF Len(rows) < limit THEN Len(rows) ELSE limit)

\* the ids of the rows the dashboard lists
ListedIds == {r.id : r \in Range(dash.pendingTransactions)}

\* {transaction.status === 'verified' && (<button ...>Submit to SWIFT</button>)}
SubmitShown(tx) ==
    \E r \in Range(dash.pendingTransactions) : r.id = tx /\ r.status = "verified"

\* disabled={!validationResults[id]?.accountValid || !validationResults[id]?.swiftCodeValid}
SubmitEnabled(tx) ==
    /\ dash.validationResults[tx].accountValid = "true"
    /\ dash.validationResults[tx].swiftCodeValid = "true"

\* loadDashboardData: setPendingTransactions(response.transactions) and
\* setValidationResults({}); a failed request is caught and logged
LoadDashboardData ==
    /\ dash.loads > 0
    /\ LET auth == authenticateToken(dash.user.id)
           ok   == auth.code = 0 /\ requireEmployee(auth.user) = 0
       IN  dash' = IF ok
                   THEN [dash EXCEPT !.pendingTransactions = PendingPage(PendingPageLimit),
                                     !.validationResults = [t \in TxIds |-> NoResult],
                                     !.loads = @ - 1]
                   ELSE [dash EXCEPT !.loads = @ - 1]
    /\ UNCHANGED <<users, transactions, audit_logs, reqs, variant, ext, swiftAuth>>

\* handleVerifyTransaction(tx, true) up to its first await
HandleVerifyClick(tx) ==
    /\ tx \in ListedIds
    /\ dash.validationResults[tx].message # MsgValidating
    /\ dash.flow[<<tx, "verify">>].pc = "idle"
    /\ IF dash.user.email = NULL \/ dash.user.bic = NULL
       THEN dash' = [dash EXCEPT !.validationResults[tx] =
                                     [NoResult EXCEPT !.message = MsgNoIdentity]]
       ELSE dash' = [dash EXCEPT !.validationResults[tx] =
                                     [NoResult EXCEPT !.message = MsgValidating],
                                 !.flow[<<tx, "verify">>] =
                                     [NoFlow EXCEPT !.pc = "account"]]
    /\ UNCHANGED <<users, transactions, audit_logs, reqs, variant, ext, swiftAuth>>

\* the service call, the subjectDn it was made with, and how it ended
Call(tx, endpoint, subjectDn, o) ==
    [tx |-> tx, endpoint |-> endpoint, subjectDn |-> subjectDn, kind |-> o.kind, match |-> o.match]

\* a route that calls the service whether or not the body carries a subjectDn
ReachesServiceAnySubject(token, subjectDn) ==
    LET auth == authenticateToken(token)
    IN  auth.code = 0 /\ requireEmployee(auth.user) = 0

\* the pre-validation routes get as far as their service call: the caller is
\* an employee and `!accountDetails || !subjectDn` is false
ReachesService(token, subjectDn) ==
    LET auth == authenticateToken(token)
    IN  auth.code = 0 /\ requireEmployee(auth.user) = 0 /\ subjectDn # NULL

\* the last service call after a request to a pre-validation route
ExtAfter(token, tx, endpoint, subjectDn, o) ==
    IF ReachesService(token, subjectDn) THEN Call(tx, endpoint, subjectDn, o) ELSE ext

\* step 1: apiService.preValidateAccount is answered; its continuation up to
\* the request of step 2, or the catch
AccountCheck(tx, o) ==
    /\ dash.flow[<<tx, "verify">>].pc = "account"
    /\ LET resp == PreValidationRoute(dash.user.id, dash.user.email,
                                      verifyBeneficiaryAccount(o), ErrPreValidation)
       IN  IF resp.status # 200
           THEN dash' = [dash EXCEPT
                            !.validationResults[tx] =
                                [NoResult EXCEPT !.message = PreValidationFailedMessage(resp.error)],
                            !.flow[<<tx, "verify">>] = NoFlow]
           ELSE dash' = [dash EXCEPT
                            !.flow[<<tx, "verify">>] =
                                [NoFlow EXCEPT !.pc = "provider",
                                               !.accountValid = IsMatch(resp.data.account_match)]]
    /\ ext' = ExtAfter(dash.user.id, tx, "accounts/verification", dash.user.email, o)
    /\ UNCHANGED <<users, transactions, audit_logs, reqs, variant, swiftAuth>>

\* step 2: apiService.validateDataProvider is answered; its continuation up to
\* the verify request, the 'Validation failed' message, or the catch
ProviderCheck(tx, o) ==
    /\ dash.flow[<<tx, "verify">>].pc = "provider"
    /\ LET resp == PreValidationRoute(dash.user.id, dash.user.email,
                                      validateDataProvider(o), ErrDataProvider)
           isAccountValid   == dash.flow[<<tx, "verify">>].accountValid
           isSwiftCodeValid == IsMatch(resp.data.party_agent_match)
       IN  IF resp.status # 200
           THEN dash' = [dash EXCEPT
                            !.validationResults[tx] =
                                [NoResult EXCEPT !.message = PreValidationFailedMessage(resp.error)],
                            !.flow[<<tx, "verify">>] = NoFlow]
           ELSE IF isAccountValid /\ isSwiftCodeValid
           THEN dash' = [dash EXCEPT
                            !.validationResults[tx] =
                                [message |-> MsgValidated, accountValid |-> "true",
                                 swiftCodeValid |-> "true"],
                            !.flow[<<tx, "verify">>] = [NoFlow EXCEPT !.pc = "verify"]]
           ELSE dash' = [dash EXCEPT
                            !.validationResults[tx] =
                                [message |-> ValidationFailedMessage(isAccountValid, isSwiftCodeValid),
                                 accountValid |-> BoolString(isAccountValid),
                                 swiftCodeValid |-> BoolString(isSwiftCodeValid)],
                            !.flow[<<tx, "verify">>] = NoFlow]
    /\ ext' = ExtAfter(dash.user.id, tx, "data-providers/check", dash.user.email, o)
    /\ UNCHANGED <<users, transactions, audit_logs, reqs, variant, swiftAuth>>

\* handleVerifyTransaction(tx, false): the reject request is sent
HandleRejectClick(tx) ==
    /\ tx \in ListedIds
    /\ dash.flow[<<tx, "reject">>].pc = "idle"
    /\ dash' = [dash EXCEPT !.flow[<<tx, "reject">>] = [NoFlow EXCEPT !.pc = "verify"]]
    /\ UNCHANGED <<users, transactions, audit_logs, reqs, variant, ext, swiftAuth>>

\* one more loadDashboardData call waits
MoreLoads(n) == IF n < MaxLoads THEN n + 1 ELSE n

\* apiService.verifyTransaction reaches the verify route; an error answer is
\* caught: a message in the verify flow, a console line in the reject flow
DashVerifyRequest(tx, k) ==
    /\ dash.flow[<<tx, k>>].pc = "verify"
    /\ \E i \in Slots :
          /\ VerifyRoute(i, dash.user.id, tx, BoolString(k = "verify"),
                         IF k = "verify" THEN NotesVerified ELSE NotesRejected)
          /\ dash' = IF reqs'[i].pc = "update"
                     THEN [dash EXCEPT !.flow[<<tx, k>>] = [NoFlow EXCEPT !.pc = "update", !.slot = i]]
                     ELSE IF k = "verify"
                     THEN [dash EXCEPT
                              !.validationResults[tx] =
                                  [NoResult EXCEPT !.message =
                                      PreValidationFailedMessage(VerifyError(reqs'[i].resp))],
                              !.flow[<<tx, k>>] = NoFlow]
                     ELSE [dash EXCEPT !.flow[<<tx, k>>] = NoFlow]
    /\ UNCHANGED <<ext, swiftAuth>>

\* the verify route's UPDATE for the dashboard's request; the dashboard then
\* calls loadDashboardData()
DashVerifyUpdate(tx, k) ==
    /\ dash.flow[<<tx, k>>].pc = "update"
    /\ VerifyRouteUpdate(dash.flow[<<tx, k>>].slot)
    /\ dash' = [dash EXCEPT !.flow[<<tx, k>>] = NoFlow, !.loads = MoreLoads(@)]
    /\ UNCHANGED <<ext, swiftAuth>>

\* a guard that asks for the account check only
SubmitGuardAccountOnly(result) == result.accountValid = "true"

\* handleSubmitToSwift: !( !result?.accountValid || !result?.swiftCodeValid )
SubmitGuard(result) == result.accountValid = "true" /\ result.swiftCodeValid = "true"

\* handleSubmitToSwift(tx) up to its await: without a successful
\* pre-validation result it alerts and returns
HandleSubmitToSwift(tx) ==
    /\ dash.flow[<<tx, "submit">>].pc = "idle"
    /\ dash' = IF SubmitGuard(dash.validationResults[tx])
               THEN [dash EXCEPT !.flow[<<tx, "submit">>] = [NoFlow EXCEPT !.pc = "submit"]]
               ELSE dash
    /\ UNCHANGED <<users, transactions, audit_logs, reqs, variant, ext, swiftAuth>>

\* apiService.submitToSwift reaches the submit route; an error answer is
\* caught and logged to the console
DashSubmitRequest(tx, now) ==
    /\ dash.flow[<<tx, "submit">>].pc = "submit"
    /\ \E i \in Slots :
          /\ SubmitRoute(i, dash.user.id, tx, now)
          /\ dash' = IF reqs'[i].pc = "update"
                     THEN [dash EXCEPT !.flow[<<tx, "submit">>] =
                                          [NoFlow EXCEPT !.pc = "update", !.slot = i]]
                     ELSE [dash EXCEPT !.flow[<<tx, "submit">>] = NoFlow]
    /\ UNCHANGED <<ext, swiftAuth>>

\* the submit route's audit INSERT and response for the dashboard's request;
\* after a success the dashboard calls loadDashboardData()
DashSubmitAudit(tx, inserted) ==
    /\ dash.flow[<<tx, "submit">>].pc = "update"
    /\ SubmitRouteAudit(dash.flow[<<tx, "submit">>].slot, inserted)
    /\ dash' = [dash EXCEPT !.flow[<<tx, "submit">>] = NoFlow,
                            !.loads = IF inserted THEN MoreLoads(@) ELSE @]
    /\ UNCHANGED <<ext, swiftAuth>>

Endpoints == {"accounts/verification", "data-providers/check"}

\* what the body of a request sent straight to the API carries as subjectDn
BodySubjectDns == {NULL, "cn=e1"}

\* who sends such a request: an employee, a customer
DirectTokens == {"e1", "c1"}

\* the answers of the external API to a request sent straight to the routes:
\* a match and a failed POST
DirectOutcomes == {o \in ExtOutcomes : o.kind = "network_error" \/ o.match = "MTCH"}

\* a client other than the dashboard POSTs to /pre-validate-account or
\* /validate-data-provider; the details name no transaction of the table
PreValidateRequest(token, endpoint, subjectDn, o) ==
    /\ ext' = ExtAfter(token, 0, endpoint, subjectDn, o)
    /\ UNCHANGED <<users, transactions, audit_logs, reqs, variant, dash, swiftAuth>>

-----------------------------------------------------------------------------
(* swiftAuthService: the token cache *)

MaxCalls == 2       \* calls of getAccessToken / disposeAccessToken in one behaviour
MaxNow == 2         \* the clock, Date.now() / 1000, takes a value in 0..MaxNow

CallIds == 1..MaxCalls

\* accessToken = null, refreshToken = null; a token is named by the number of
\* the token response that carried it
NoToken == 0

\* "Refresh 60 seconds before expiry"
GraceSeconds == 60

\* response.data.expires_in
ExpiresInValues == {61, 62}

SubjectDns == {"cn=e1", "cn=e2"}

IdleCall ==
    [pc |-> "idle", op |-> "none", grant |-> "none", sub |-> "", sent |-> NoToken,
     result |-> NoToken]

\* the module after require(): nothing cached; keys tells whether
\* SWIFT_PRIVATE_KEY and SWIFT_X5C_CERTIFICATE are set
ModuleLoaded(keys) ==
    [accessToken    |-> NoToken,
     refreshToken   |-> NoToken,
     tokenExpiresAt |-> 0,
     now            |-> 0,
     keys           |-> keys,
     issued         |-> <<>>,      \* the token responses received, with their time
     calls          |-> [c \in CallIds |-> IdleCall]]

\* a cache write that keeps the refresh token it had
CacheWriteKeepRefresh(a, response) ==
    [a EXCEPT !.accessToken = response.access_token,
              !.tokenExpiresAt = a.now + response.expires_in,
              !.refreshToken = IF @ # NoToken THEN @ ELSE response.refresh_token,
              !.issued = Append(@, [response |-> response, at |-> a.now])]

\* accessToken = response.data.access_token; refreshToken = ...;
\* tokenExpiresAt = Math.floor(Date.now() / 1000) + response.data.expires_in
CacheWrite(a, response) ==
    [a EXCEPT !.accessToken = response.access_token,
              !.refreshToken = response.refresh_token,
              !.tokenExpiresAt = a.now + response.expires_in,
              !.issued = Append(@, [response |-> response, at |-> a.now])]

\* accessToken = null; refreshToken = null; tokenExpiresAt = 0
CacheClear(a) ==
    [a EXCEPT !.accessToken = NoToken, !.refreshToken = NoToken, !.tokenExpiresAt = 0]

\* the module after an earlier acquisition at time 0
Holding(keys, response) == CacheWrite(ModuleLoaded(keys), response)

\* an expiry test without the 60 seconds
TokenUsableNoGrace(a) == a.accessToken # NoToken /\ ~(a.now >= a.tokenExpiresAt)

\* an expiry test that never passes
TokenUsableNever(a) == FALSE

\* !( !accessToken || Date.now() / 1000 >= tokenExpiresAt - 60 )
TokenUsable(a) ==
    a.accessToken # NoToken /\ ~(a.now >= a.tokenExpiresAt - GraceSeconds)

\* a choice that always takes the JWT-bearer grant
ChooseGrantJwt(a) == "jwt"

\* if (refreshToken) refreshAccessToken() else requestAccessToken(subjectDn)
ChooseGrant(a) == IF a.refreshToken # NoToken THEN "refresh" ELSE "jwt"

\* a createJwt that signs without looking for the key
SigningKeysAssumed(a) == TRUE

\* createJwt: !( !privateKey || !x5cCertificate )
SigningKeysSet(a) == a.keys

\* calls are numbered in the order they start
NextCall(c) ==
    /\ swiftAuth.calls[c].pc = "idle"
    /\ \A d \in CallIds : d < c => swiftAuth.calls[d].pc # "idle"

OtherVars == <<users, transactions, audit_logs, reqs, variant, dash, ext>>

\* getAccessToken(subjectDn) up to its return or its request to /token; sub
\* is the subjectDn of the call, which only createJwt reads;
\* createJwt throws when the signing key or certificate is not set
GetAccessToken(c, subjectDn) ==
    /\ NextCall(c)
    /\ LET a    == swiftAuth
           call == [IdleCall EXCEPT !.op = "get", !.sub = subjectDn]
       IN  swiftAuth' = [a EXCEPT !.calls[c] =
               IF TokenUsable(a)
               THEN [call EXCEPT !.pc = "returned", !.result = a.accessToken]
               ELSE IF ChooseGrant(a) = "refresh"
               THEN [call EXCEPT !.pc = "token_wait", !.grant = "refresh",
                                 !.sent = a.refreshToken]
               ELSE IF ~SigningKeysSet(a)
               THEN [call EXCEPT !.pc = "threw", !.grant = "jwt"]
               ELSE [call EXCEPT !.pc = "token_wait", !.grant = "jwt"]]
    /\ UNCHANGED OtherVars

\* what the token endpoint can answer
TokenOutcomes ==
    { [ok |-> FALSE, expires_in |-> 0, refresh |-> FALSE] }
    \cup { [ok |-> TRUE, expires_in |-> e, refresh |-> r] :
              e \in ExpiresInValues, r \in BOOLEAN }

\* the token response o makes when it is the n-th
TokenResponseData(o, n) ==
    [access_token  |-> n,
     refresh_token |-> IF o.refresh THEN n ELSE NoToken,
     expires_in    |-> o.expires_in]

\* requestAccessToken / refreshAccessToken after the await: the cache is
\* written and accessToken returned, or the error is rethrown
TokenResponse(c, o) ==
    /\ swiftAuth.calls[c].pc = "token_wait"
    /\ LET a == swiftAuth
           b == CacheWrite(a, TokenResponseData(o, Len(a.issued) + 1))
       IN  swiftAuth' =
               IF o.ok
               THEN [b EXCEPT !.calls[c].pc = "returned", !.calls[c].result = b.accessToken]
               ELSE [a EXCEPT !.calls[c].pc = "threw"]
    /\ UNCHANGED OtherVars

\* disposeAccessToken up to its return or its request to /revoke
DisposeAccessToken(c) ==
    /\ NextCall(c)
    /\ LET a    == swiftAuth
           call == [IdleCall EXCEPT !.op = "dispose"]
       IN  swiftAuth' = [a EXCEPT !.calls[c] =
               IF a.accessToken = NoToken
               THEN [call EXCEPT !.pc = "returned"]
               ELSE [call EXCEPT !.pc = "revoke_wait", !.sent = a.accessToken]]
    /\ UNCHANGED OtherVars

\* disposeAccessToken after the await: the cache is cleared, or the error is
\* rethrown
RevokeResponse(c, ok) ==
    /\ swiftAuth.calls[c].pc = "revoke_wait"
    /\ swiftAuth' =
           IF ok
           THEN [CacheClear(swiftAuth) EXCEPT !.calls[c].pc = "returned"]
           ELSE [swiftAuth EXCEPT !.calls[c].pc = "threw"]
    /\ UNCHANGED OtherVars

\* time passes
Tick ==
    /\ swiftAuth.now < MaxNow
    /\ swiftAuth' = [swiftAuth EXCEPT !.now = @ + 1]
    /\ UNCHANGED OtherVars

-----------------------------------------------------------------------------
(* Inputs *)

\* "1000.50", "USD", "PAYEE123", "SBZAZAJJ", "Jane Smith"
GoodBody ==
    [amount       |-> <<"1","0","0","0",".","5","0">>,
     currency     |-> <<"U","S","D">>,
     payeeAccount |-> <<"P","A","Y","E","E","1","2","3">>,
     swiftCode    |-> <<"S","B","Z","A","Z","A","J","J">>,
     payeeName    |-> <<"J","a","n","e"," ","S","m","i","t","h">>]

\* "25", "EUR", "ACC00942", "DEUTDEFF500", " Li "
OtherBody ==
    [amount       |-> <<"2","5">>,
     currency     |-> <<"E","U","R">>,
     payeeAccount |-> <<"A","C","C","0","0","9","4","2">>,
     swiftCode    |-> <<"D","E","U","T","D","E","F","F","5","0","0">>,
     payeeName    |-> <<" ","L","i"," ">>]

Bodies ==
    { GoodBody, OtherBody,
      [GoodBody EXCEPT !.amount = <<"-","5">>],
      [GoodBody EXCEPT !.amount = <<"1","0","0","0","0","0",".","0","1">>],
      [GoodBody EXCEPT !.swiftCode = <<"S","B","Z","A">>],
      [OtherBody EXCEPT !.payeeName = <<"L">>, !.currency = <<"e","u","r">>] }

TxParams == 0..MaxTx
VerifiedValues == {"true", "false", "maybe"}
NotesValues == {"", "checked"}

\* the table when the server starts: empty, or holding a payment created earlier
InitTransactions == {<<>>, <<CreateRow("c1", GoodBody)>>}

-----------------------------------------------------------------------------
(* The payments router under concurrent requests *)

Init ==
    /\ users = InitUsers
    /\ transactions \in InitTransactions
    /\ audit_logs = EmptyBag
    /\ reqs = [i \in Slots |-> IdleReq]
    /\ variant \in {"fourState", "twoTerminal"}
    /\ dash = Unmounted
    /\ ext = NoCall
    /\ swiftAuth = ModuleLoaded(TRUE)

Next ==
    \/ \E i \in Slots, t \in Tokens, b \in Bodies, l \in BOOLEAN : CreateRequest(i, t, b, l)
    \/ \E i \in Slots, t \in Tokens, x \in TxParams, v \in VerifiedValues, n \in NotesValues :
          VerifyRequest(i, t, x, v, n)
    \/ \E i \in Slots : VerifyUpdate(i)
    \/ \E i \in Slots, t \in Tokens, x \in TxParams, now \in Times : SubmitRequest(i, t, x, now)
    \/ \E i \in Slots : SubmitUpdate(i)
    \/ \E i \in Slots, ok \in BOOLEAN : SubmitAudit(i, ok)
    \/ \E i \in Slots, ok \in BOOLEAN : AuditLogCallback(i, ok)

Spec == Init /\ [][Next]_vars

-----------------------------------------------------------------------------
(* Properties of the payments router *)

StatusOf(id) == IF id \in DOMAIN transactions THEN transactions[id].status ELSE "none"

\* slot i takes a request in this step
Arrives(i) == reqs[i].pc = "idle" /\ reqs'[i].pc # "idle"

\* slot i takes a step
Steps(i) == reqs'[i] # reqs[i]

\* the token is a valid token of an active user
ValidToken(token) == token \in DOMAIN users /\ users[token].is_active

EmployeeOp(r) == r.kind \in {"verify", "submit"}

\* the status the guard of an employee operation read
GuardRead(r) == IF r.kind = "verify" THEN VerifyGuardStatus ELSE SubmitGuardStatus

\* C1: of two employee operations that ran concurrently on one transaction
\* (each passed its guard while the other was in flight) and have both been
\* answered, exactly one reports success.
C1_ExactlyOneSucceeds ==
    \A i \in Slots, j \in Slots :
        ( /\ i # j
          /\ EmployeeOp(reqs[j]) /\ Answered(reqs[j]) /\ i \in reqs[j].overlap
          /\ Answered(reqs[i]) )
        => ((reqs[i].resp = 200) # (reqs[j].resp = 200))

\* C2: the UPDATE of verify, reject and submit is a compare-and-swap: when the
\* stored status is no longer the one the guard read, the update fails and
\* leaves the row as it was.
C2_CompareAndSwap ==
    [][\A i \in Slots :
          ( /\ reqs[i].pc = "update" /\ Steps(i)
            /\ StatusOf(reqs[i].tx) # GuardRead(reqs[i]) )
          => ( /\ transactions' = transactions
               /\ reqs'[i].pc = "responded"
               /\ reqs'[i].resp \notin {200, 201} )]_vars

StatusEdges ==
    {<<"pending", "verified">>, <<"pending", "rejected">>, <<"verified", "completed">>}

\* C3: every change of a transaction's status follows pending->verified,
\* pending->rejected or verified->completed.
C3_StatusEdgesOnly ==
    [][\A t \in DOMAIN transactions :
          /\ t \in DOMAIN transactions'
          /\ transactions'[t].status # transactions[t].status
             => <<transactions[t].status, transactions'[t].status>> \in StatusEdges]_vars

\* C4: a submit-to-swift that arrives for a transaction whose stored status is
\* not verified is answered with an error at once, changes no status and
\* records no SWIFT_SUBMISSION row.
C4_SubmitOnlyFromVerified ==
    [][\A i \in Slots :
          (Arrives(i) /\ reqs'[i].kind = "submit" /\ StatusOf(reqs'[i].tx) # "verified")
          => ( /\ reqs'[i].pc = "responded"
               /\ reqs'[i].resp \in {400, 401, 403, 404, 409}
               /\ transactions' = transactions
               /\ audit_logs' = audit_logs )]_vars

\* C5: a verify or reject that arrives for a transaction that is not pending,
\* or for an unknown id, is answered with an error and changes no row; a
\* request that has been answered changes no row afterwards.
C5_VerifyOnlyFromPending ==
    [][\A i \in Slots :
          /\ (Arrives(i) /\ reqs'[i].kind = "verify" /\ StatusOf(reqs'[i].tx) # "pending")
             => ( /\ reqs'[i].pc = "responded"
                  /\ reqs'[i].resp \in {400, 401, 403, 404}
                  /\ transactions' = transactions )
          /\ (reqs[i].pc = "responded" /\ Steps(i)) => transactions' = transactions]_vars

C5_Witness ==
    \E i \in Slots :
        /\ reqs[i].kind = "verify" /\ reqs[i].pc = "responded" /\ reqs[i].resp = 404
        /\ reqs[i].user = "e1" /\ reqs[i].verified = "true"
        /\ StatusOf(reqs[i].tx) \in {"verified", "rejected", "completed", "failed"}

\* C6: a successful create appends exactly one row, pending and owned by the
\* authenticated caller, and changes no other row; a create that is answered
\* with an error, in particular one whose body fails validation, appends
\* nothing; nothing but a create adds a row.
C6_CreateAddsOnePending ==
    [][/\ \A i \in Slots :
             (Arrives(i) /\ reqs'[i].kind = "create")
             => LET r == reqs'[i]
                    n == Len(transactions)
                IN  /\ r.resp = 201 =>
                          /\ Len(transactions') = n + 1
                          /\ SubSeq(transactions', 1, n) = transactions
                          /\ transactions'[n + 1].status = "pending"
                          /\ ValidToken(r.token)
                          /\ transactions'[n + 1].customer_id = r.token
                          /\ r.tx = n + 1
                          /\ validatePaymentInput(r.body) = <<>>
                    /\ r.resp # 201 => transactions' = transactions
       /\ Len(transactions') # Len(transactions)
             => \E i \in Slots : Arrives(i) /\ reqs'[i].kind = "create"
                                    /\ reqs'[i].resp = 201]_vars

C6_Witness ==
    \E i \in Slots :
        /\ reqs[i].kind = "create" /\ reqs[i].pc = "responded" /\ reqs[i].resp = 201
        /\ reqs[i].tx = Len(transactions)
        /\ transactions[reqs[i].tx].status = "pending"
        /\ transactions[reqs[i].tx].customer_id = "c1"

RequiredRole(kind) == IF kind = "create" THEN "customer" ELSE "employee"

\* C7: a request without a valid token is answered 401 and one by a user of
\* the wrong role 403, both without a change to any row; a row is added only
\* by a request of an authenticated customer and changed only by a request of
\* an authenticated employee.
C7_RoleGate ==
    [][\A i \in Slots :
          /\ Arrives(i) =>
                LET r == reqs'[i]
                IN  /\ ~ValidToken(r.token)
                       => (r.resp = 401 /\ transactions' = transactions)
                    /\ (ValidToken(r.token) /\ users[r.token].role # RequiredRole(r.kind))
                       => (r.resp = 403 /\ transactions' = transactions)
          /\ (Steps(i) /\ transactions' # transactions) =>
                LET r == reqs'[i]
                IN  /\ r.user \in DOMAIN users
                    /\ users[r.user].is_active
                    /\ users[r.user].role = RequiredRole(r.kind)
                    /\ Len(transactions') # Len(transactions) <=> r.kind = "create"
          /\ transactions' # transactions => \E k \in Slots : reqs'[k] # reqs[k]]_vars

C7_Witness ==
    \E i \in Slots :
        /\ reqs[i].pc = "responded" /\ reqs[i].resp = 403
        /\ reqs[i].kind = "verify" /\ reqs[i].token = "c1"
        /\ \E t \in DOMAIN transactions : transactions[t].status = "pending"

\* C10: a submit-to-swift that an active employee sends for a verified
\* transaction passes the guard; its UPDATE sets the status to completed; and
\* when it reports success it returns a reference that carries the transaction
\* id and has inserted one SWIFT_SUBMISSION row by that employee whose details
\* carry the transaction's amount, currency, payee account and SWIFT code.
C10_SubmitCompletes ==
    [][\A i \in Slots :
          /\ ( /\ Arrives(i) /\ reqs'[i].kind = "submit"
               /\ ValidToken(reqs'[i].token)
               /\ users[reqs'[i].token].role = "employee"
               /\ \E t \in DOMAIN transactions :
                     transactions[t].status = "verified" /\ reqs'[i].tx = t )
             => reqs'[i].pc = "update"
          /\ (reqs[i].kind = "submit" /\ reqs[i].pc = "update" /\ Steps(i))
             => ( /\ reqs'[i].pc = "audit"
                  /\ transactions'[reqs[i].tx].status = "completed" )
          /\ (reqs[i].kind = "submit" /\ Steps(i) /\ reqs'[i].pc = "responded"
                 /\ reqs'[i].resp = 200)
             => LET r == reqs'[i]
                    t == transactions[r.tx]
                IN  /\ reqs[i].pc = "audit"
                    /\ r.ref.prefix = "SWIFT" /\ r.ref.tx = r.tx
                    /\ r.user = r.token /\ users[r.user].role = "employee"
                    /\ \E row \in BagToSet(audit_logs') :
                          /\ audit_logs' = Insert(audit_logs, row)
                          /\ row.action = "SWIFT_SUBMISSION"
                          /\ row.user_id = r.user
                          /\ row.details.transactionId = r.tx
                          /\ row.details.swiftSubmissionId = r.ref
                          /\ row.details.amount = t.amount
                          /\ row.details.currency = t.currency
                          /\ row.details.payeeAccount = t.payee_account
                          /\ row.details.swiftCode = t.swift_code]_vars

C10_Witness ==
    \E i \in Slots :
        /\ variant = "fourState"
        /\ reqs[i].kind = "submit" /\ reqs[i].pc = "responded" /\ reqs[i].resp = 200
        /\ StatusOf(reqs[i].tx) = "completed"
        /\ \E row \in BagToSet(audit_logs) :
              row.action = "SWIFT_SUBMISSION" /\ row.details.transactionId = reqs[i].tx

-----------------------------------------------------------------------------
(* The dashboard's pre-validation and reject flows against the verify route *)

\* one or two payments wait for an employee
DashInitTransactions ==
    { <<CreateRow("c1", GoodBody)>>,
      <<[CreateRow("c1", OtherBody) EXCEPT !.status = "rejected"], CreateRow("c1", GoodBody)>> }

InitDash ==
    /\ users = InitUsers
    /\ transactions \in DashInitTransactions
    /\ audit_logs = EmptyBag
    /\ reqs = [i \in Slots |-> IdleReq]
    /\ variant \in {"fourState", "twoTerminal"}
    /\ dash \in {Mounted(p) : p \in Profiles}
    /\ ext = NoCall
    /\ swiftAuth = ModuleLoaded(TRUE)

NextDash ==
    \/ LoadDashboardData
    \/ \E t \in TxIds : HandleVerifyClick(t)
    \/ \E t \in TxIds, o \in ExtOutcomes : AccountCheck(t, o)
    \/ \E t \in TxIds, o \in ExtOutcomes : ProviderCheck(t, o)
    \/ \E t \in TxIds : HandleRejectClick(t)
    \/ \E t \in TxIds, k \in FlowKinds : DashVerifyRequest(t, k)
    \/ \E t \in TxIds, k \in FlowKinds : DashVerifyUpdate(t, k)
    \/ \E i \in Slots, ok \in BOOLEAN : AuditLogCallback(i, ok)

SpecDash == InitDash /\ [][NextDash]_vars

TransportFailures == {"token_error", "network_error", "http_error"}

VerifyFlow(t) == dash.flow[<<t, "verify">>]

\* the verify flow of t takes the step that ends a service call
CallEnds(t) ==
    /\ VerifyFlow(t).pc \in {"account", "provider"}
    /\ dash'.flow[<<t, "verify">>] # VerifyFlow(t)

\* C8: when a call of verifyBeneficiaryAccount or validateDataProvider fails
\* (no token, no response, non-2xx), that step shows 'Pre-validation failed'
\* with the route's error, ends the flow, changes no row and sends no request.
C8_ExternalFailureLeavesPending ==
    [][\A t \in TxIds :
          (CallEnds(t) /\ ext'.kind \in TransportFailures)
          => ( /\ ext'.tx = t
               /\ dash'.validationResults[t].message =
                     PreValidationFailedMessage(
                         IF VerifyFlow(t).pc = "account"
                         THEN ErrPreValidation ELSE ErrDataProvider)
               /\ dash'.flow[<<t, "verify">>] = NoFlow
               /\ transactions' = transactions
               /\ reqs' = reqs )]_vars

C8_Witness ==
    \E t \in TxIds :
        /\ ext = Call(t, "data-providers/check", dash.user.email,
                      [kind |-> "network_error", match |-> NULL])
        /\ dash.validationResults[t].message = PreValidationFailedMessage(ErrDataProvider)
        /\ VerifyFlow(t) = NoFlow
        /\ StatusOf(t) = "pending"

\* the call ended with a 2xx answer whose indicator is MTCH
Matched(call, endpoint) ==
    call.endpoint = endpoint /\ call.kind = "ok" /\ call.match = "MTCH"

\* C9: the flow runs the account verification first and the data-provider
\* check second; it sends its verify request only at the step where the
\* data-provider check is answered MTCH after the account verification was
\* answered MTCH; any other answer sends no request and changes no row; and
\* its verify request is the only step of the flow that changes the row.
C9_VerifyOnlyAfterBothMatch ==
    [][\A t \in TxIds :
          /\ (VerifyFlow(t).pc = "account" /\ CallEnds(t))
             => ( /\ ext'.endpoint = "accounts/verification"
                  /\ dash'.flow[<<t, "verify">>].pc \in {"idle", "provider"}
                  /\ dash'.flow[<<t, "verify">>].pc = "provider"
                        => ( /\ ext'.kind = "ok"
                             /\ dash'.flow[<<t, "verify">>].accountValid
                                   = Matched(ext', "accounts/verification") )
                  /\ reqs' = reqs /\ transactions' = transactions )
          /\ (VerifyFlow(t).pc = "provider" /\ CallEnds(t))
             => ( /\ ext'.endpoint = "data-providers/check"
                  /\ dash'.flow[<<t, "verify">>].pc \in {"idle", "verify"}
                  /\ dash'.flow[<<t, "verify">>].pc = "verify"
                        <=> (VerifyFlow(t).accountValid /\ Matched(ext', "data-providers/check"))
                  /\ reqs' = reqs /\ transactions' = transactions )
          /\ dash'.flow[<<t, "verify">>].pc = "verify" => VerifyFlow(t).pc \in {"provider", "verify"}
          /\ dash'.flow[<<t, "verify">>].pc = "update" => VerifyFlow(t).pc \in {"verify", "update"}
          /\ dash'.flow[<<t, "verify">>].pc = "provider" => VerifyFlow(t).pc \in {"account", "provider"}
          /\ ( /\ t \in DOMAIN transactions
               /\ transactions'[t].employee_notes = NotesVerified
               /\ transactions[t].employee_notes # NotesVerified )
             => VerifyFlow(t).pc = "update"]_vars

C9_Witness ==
    \E t \in TxIds :
        /\ Matched(ext, "data-providers/check") /\ ext.tx = t
        /\ variant = "fourState"
        /\ StatusOf(t) = "verified"
        /\ transactions[t].employee_notes = NotesVerified
        /\ dash.validationResults[t].accountValid = "true"

-----------------------------------------------------------------------------
(* Properties of the audit trail *)

\* the SWIFT_SUBMISSION rows of audit_logs that name transaction t
SubmissionRows(t) ==
    {row \in BagToSet(audit_logs) :
        row.action = "SWIFT_SUBMISSION" /\ row.details.transactionId = t}

\* how many of them there are, copies counted
SubmissionCount(t) ==
    BagCardinality([row \in SubmissionRows(t) |-> CopiesIn(row, audit_logs)])

\* a submit of t has run its UPDATE and not yet its audit INSERT
SubmitPending(t) ==
    \E i \in Slots : reqs[i].kind = "submit" /\ reqs[i].pc = "audit" /\ reqs[i].tx = t

\* C11: no transaction ever has more than one SWIFT_SUBMISSION row, and a
\* completed transaction whose submit has finished has exactly one.
C11_OneSubmissionEntry ==
    \A t \in DOMAIN transactions :
        /\ SubmissionCount(t) <= 1
        /\ (transactions[t].status = "completed" /\ ~SubmitPending(t))
           => SubmissionCount(t) = 1

\* C18: once the UPDATE of a submit is committed, the request reports
\* success whatever becomes of its audit INSERT; and the request-level audit
\* callback changes no row and no response.
C18_AuditFailureDoesNotAbort ==
    [][\A i \in Slots :
          /\ (reqs[i].kind = "submit" /\ reqs[i].pc = "audit" /\ Steps(i))
             => (reqs'[i].pc = "responded" /\ reqs'[i].resp = 200)
          /\ (reqs[i].pc = "responded" /\ Steps(i))
             => (transactions' = transactions /\ reqs'[i].pc = "done")]_vars

TransitionAction(newStatus) ==
    IF newStatus = "rejected" THEN "TRANSACTION_REJECTED" ELSE "TRANSACTION_VERIFIED"

\* C19: when a verify or reject that answered 200 is over, audit_logs holds
\* a TRANSACTION_VERIFIED or TRANSACTION_REJECTED row naming the employee
\* and the transaction; a verify that failed adds no such row.
C19_TransitionIsAudited ==
    [][\A i \in Slots :
          (reqs[i].kind = "verify" /\ reqs[i].pc = "responded" /\ Steps(i))
          => IF reqs[i].resp = 200
             THEN \E row \in BagToSet(audit_logs') :
                     /\ row.action = TransitionAction(reqs[i].newStatus)
                     /\ row.user_id = reqs[i].user
                     /\ row.details.transactionId = reqs[i].tx
             ELSE \A row \in BagToSet(audit_logs') :
                     row.action \in {"TRANSACTION_VERIFIED", "TRANSACTION_REJECTED"}
                     => row \in BagToSet(audit_logs)]_vars

-----------------------------------------------------------------------------
(* The token cache under concurrent calls *)

InitToken ==
    /\ users = InitUsers
    /\ transactions = <<>>
    /\ audit_logs = EmptyBag
    /\ reqs = [i \in Slots |-> IdleReq]
    /\ variant = "fourState"
    /\ dash = Unmounted
    /\ ext = NoCall
    /\ swiftAuth \in
          {ModuleLoaded(k) : k \in BOOLEAN}
          \cup {Holding(TRUE, TokenResponseData(o, 1)) : o \in {p \in TokenOutcomes : p.ok}}

NextToken ==
    \/ \E c \in CallIds, dn \in SubjectDns : GetAccessToken(c, dn)
    \/ \E c \in CallIds, o \in TokenOutcomes : TokenResponse(c, o)
    \/ \E c \in CallIds : DisposeAccessToken(c)
    \/ \E c \in CallIds, ok \in BOOLEAN : RevokeResponse(c, ok)
    \/ Tick

SpecToken == InitToken /\ [][NextToken]_vars

-----------------------------------------------------------------------------
(* Properties of the token cache *)

CallOf(c) == swiftAuth.calls[c]

\* call c starts in this step as a getAccessToken
GetStarts(c) == CallOf(c).pc = "idle" /\ swiftAuth'.calls[c].op = "get"

\* the three cached values
Cache(a) == <<a.accessToken, a.refreshToken, a.tokenExpiresAt>>

\* seconds the cached token has left
SecondsLeft == swiftAuth.tokenExpiresAt - swiftAuth.now

\* C12: at most one request to the token endpoint is outstanding at any
\* time.
C12_OneAcquisitionInFlight ==
    \A c \in CallIds, d \in CallIds :
        (CallOf(c).pc = "token_wait" /\ CallOf(d).pc = "token_wait") => c = d

\* C13: when the call to the revocation endpoint is over, succeeded or
\* failed, the cached access token, refresh token and expiry are cleared.
C13_RevokeAlwaysClears ==
    [][\A c \in CallIds :
          (CallOf(c).pc = "revoke_wait" /\ swiftAuth'.calls[c].pc # "revoke_wait")
          => Cache(swiftAuth') = <<NoToken, NoToken, 0>>]_vars

\* C14: a getAccessToken that starts while the cached token has more than
\* 60 seconds left returns the cached token at once, sends nothing to the
\* token endpoint and leaves the cache as it was; so two such calls with
\* no cache write between them return the same token.
C14_IdempotentInWindow ==
    [][\A c \in CallIds :
          (GetStarts(c) /\ swiftAuth.accessToken # NoToken /\ SecondsLeft > 60)
          => ( /\ swiftAuth'.calls[c].pc = "returned"
               /\ swiftAuth'.calls[c].result = swiftAuth.accessToken
               /\ swiftAuth'.calls[c].grant = "none"
               /\ Cache(swiftAuth') = Cache(swiftAuth)
               /\ swiftAuth'.issued = swiftAuth.issued
               /\ \A d \in CallIds :
                     (d # c /\ CallOf(d).pc = "returned" /\ CallOf(d).grant = "none"
                        /\ CallOf(d).op = "get" /\ Len(swiftAuth.issued) = 1)
                     => CallOf(d).result = swiftAuth'.calls[c].result )]_vars

C14_Witness ==
    /\ Len(swiftAuth.issued) = 1
    /\ \A c \in {1, 2} :
          /\ CallOf(c).op = "get" /\ CallOf(c).pc = "returned" /\ CallOf(c).grant = "none"
          /\ CallOf(c).result = swiftAuth.accessToken
    /\ swiftAuth.accessToken # NoToken

\* C15: a getAccessToken that finds no token, or one with 60 seconds or less
\* left, takes the refresh-token grant with the held refresh token exactly
\* when one is held, and the JWT-bearer grant with the caller's subject
\* otherwise; a successful token response is written to the cache whole and
\* its access token is what the call returns.
C15_GrantChoiceAndCacheWrite ==
    [][\A c \in CallIds :
          /\ (GetStarts(c) /\ (swiftAuth.accessToken = NoToken \/ SecondsLeft <= 60))
             => LET call == swiftAuth'.calls[c]
                IN  /\ call.grant = "refresh" <=> swiftAuth.refreshToken # NoToken
                    /\ call.grant = "refresh"
                          => (call.pc = "token_wait" /\ call.sent = swiftAuth.refreshToken)
                    /\ call.grant # "refresh"
                          => ( /\ call.grant = "jwt" /\ call.sub \in SubjectDns
                               /\ call.pc = IF swiftAuth.keys THEN "token_wait" ELSE "threw" )
                    /\ Cache(swiftAuth') = Cache(swiftAuth)
          /\ (CallOf(c).pc = "token_wait" /\ swiftAuth'.calls[c].pc = "returned")
             => LET n == Len(swiftAuth'.issued)
                    r == swiftAuth'.issued[n].response
                IN  /\ n = Len(swiftAuth.issued) + 1
                    /\ r.access_token = n
                    /\ Cache(swiftAuth') = <<r.access_token, r.refresh_token,
                                             swiftAuth.now + r.expires_in>>
                    /\ swiftAuth'.calls[c].result = r.access_token ]_vars

C15_Witness ==
    \E c \in CallIds :
        /\ CallOf(c).pc = "returned" /\ CallOf(c).grant = "refresh"
        /\ CallOf(c).sent = 1
        /\ CallOf(c).result = 2 /\ swiftAuth.accessToken = 2
        /\ swiftAuth.tokenExpiresAt = swiftAuth.issued[2].at + swiftAuth.issued[2].response.expires_in

\* C16: getAccessToken returns the cached token only while it has more
\* than 60 seconds left, and goes for a new token only when none is cached
\* or the cached one has 60 seconds or less left.
C16_ExpiryThreshold ==
    [][\A c \in CallIds :
          GetStarts(c)
          => ( /\ swiftAuth'.calls[c].pc = "returned"
                     => (swiftAuth.accessToken # NoToken /\ SecondsLeft > 60)
               /\ swiftAuth'.calls[c].pc \in {"token_wait", "threw"}
                     => (swiftAuth.accessToken = NoToken \/ SecondsLeft <= 60) )]_vars

\* a request for a new token made at the very second the cached token has
\* 60 seconds left
C16_Witness ==
    \E c \in CallIds :
        /\ CallOf(c).op = "get" /\ CallOf(c).pc = "token_wait"
        /\ swiftAuth.accessToken # NoToken
        /\ SecondsLeft = 60

\* C17: the cached access token, refresh token and expiry are all cleared,
\* or all three are the values of one token response.
C17_CacheIsOnePair ==
    \/ Cache(swiftAuth) = <<NoToken, NoToken, 0>>
    \/ \E n \in DOMAIN swiftAuth.issued :
          LET i == swiftAuth.issued[n]
          IN  Cache(swiftAuth) = <<i.response.access_token, i.response.refresh_token,
                                   i.at + i.response.expires_in>>

\* two acquisitions ran side by side and the second answer is what is cached
C17_Witness ==
    /\ CallOf(1).pc = "returned" /\ CallOf(2).pc = "returned"
    /\ CallOf(1).grant = "refresh" /\ CallOf(2).grant = "refresh"
    /\ CallOf(1).sent = CallOf(2).sent
    /\ CallOf(1).result # CallOf(2).result
    /\ swiftAuth.accessToken = Len(swiftAuth.issued)

-----------------------------------------------------------------------------
(* Properties of the dashboard's row actions *)

\* the dashboard's Pre-Validate & Verify of t has succeeded
VerifiedByDashboard(t) ==
    /\ t \in DOMAIN transactions
    /\ transactions[t].status = "verified"
    /\ transactions[t].employee_notes = NotesVerified
    /\ VerifyFlow(t) = NoFlow

\* C20: once Pre-Validate & Verify of a transaction has succeeded, its row
\* shows the Submit to SWIFT button and the button is enabled.
C20_SubmitAvailableAfterVerify ==
    \A t \in TxIds : VerifiedByDashboard(t) => (SubmitShown(t) /\ SubmitEnabled(t))

\* the pre-validation of t ends in failure in this step: a call is answered
\* and the flow stops instead of going on
EndsInFailure(t) == CallEnds(t) /\ dash'.flow[<<t, "verify">>].pc = "idle"

-----------------------------------------------------------------------------
(* The signing identity of a pre-validation *)

NextPreValidation ==
    \/ NextDash
    \/ \E t \in DirectTokens, e \in Endpoints, dn \in BodySubjectDns, o \in DirectOutcomes :
          PreValidateRequest(t, e, dn, o)

\* the dashboard next to clients that call the pre-validation routes themselves
SpecPreValidation == InitDash /\ [][NextPreValidation]_vars

IdentityAbsent == dash.user.email = NULL \/ dash.user.bic = NULL

\* the Pre-Validate & Verify button of t is clicked in this step
VerifyClicked(t) ==
    /\ VerifyFlow(t).pc = "idle"
    /\ dash'.validationResults[t] # dash.validationResults[t]
    /\ dash'.pendingTransactions = dash.pendingTransactions
    /\ dash'.flow[<<t, "reject">>] = dash.flow[<<t, "reject">>]
    /\ reqs' = reqs

\* C23: a click on Pre-Validate & Verify by an employee whose email (the
\* subject DN) or BIC is absent ends at once with the message that says so,
\* starts no flow, sends no request and changes no row; and no call that
\* reached the external service, from the dashboard or from a request sent
\* straight to the routes, was made without a subjectDn.
C23_IdentityRequired ==
    [][/\ \A t \in TxIds :
             (VerifyClicked(t) /\ IdentityAbsent)
             => ( /\ dash'.validationResults[t].message = MsgNoIdentity
                  /\ dash'.validationResults[t].accountValid = NULL
                  /\ dash'.flow = dash.flow
                  /\ ext' = ext
                  /\ transactions' = transactions )
       /\ ext' # ext
             => ( /\ ext'.subjectDn # NULL
                  /\ ext'.tx # 0 => ~IdentityAbsent
                  /\ transactions' = transactions )]_vars

\* the employee without a BIC has clicked, and nothing has been called
C23_Witness ==
    \E t \in TxIds :
        /\ dash.validationResults[t].message = MsgNoIdentity
        /\ dash.user.email # NULL /\ dash.user.bic = NULL
        /\ ext = NoCall
        /\ StatusOf(t) = "pending"
        /\ t \in ListedIds

-----------------------------------------------------------------------------
(* Termination of the calls to the external service *)

\* Time passes whatever the token endpoint does. The axios.post calls of
\* swiftAuthService and swiftPreValidationService set no timeout, so no step
\* of the program is enabled by the passing of time; an answer of the
\* endpoint is a step of the environment and gets no fairness.
SpecTokenFair == InitToken /\ [][NextToken]_vars /\ WF_vars(Tick)

\* C22: every getAccessToken that has sent its request to the token endpoint
\* eventually returns to its caller, with a token or with an error.
C22_ExternalCallsTerminate ==
    \A c \in CallIds :
        (CallOf(c).pc = "token_wait") ~> (CallOf(c).pc \in {"returned", "threw"})

-----------------------------------------------------------------------------
(* router.post('/create') on one request body *)

\* "100000.00", "100000.01", "99999.99", "0.01", "0.004", "1.234", "1000.50",
\* "0", "-5", "abc" and a missing amount
AmountInputs ==
    { <<"1","0","0","0","0","0",".","0","0">>, <<"1","0","0","0","0","0",".","0","1">>,
      <<"9","9","9","9","9",".","9","9">>, <<"0",".","0","1">>, <<"0",".","0","0","4">>,
      <<"1",".","2","3","4">>, GoodBody.amount, <<"0">>, <<"-","5">>, <<"a","b","c">>, <<>> }

CurrencyInputs == { <<"U","S","D">>, <<"u","s","d">>, <<"U","S">> }

AccountInputs ==
    { GoodBody.payeeAccount, <<"p","a","y","e","e","1","2","3">>, <<"P","A","Y">> }

SwiftInputs == { GoodBody.swiftCode, <<"s","b","z","a","z","a","j","j">>, <<"S","B","Z","A">> }

NameInputs == { GoodBody.payeeName, <<"J">> }

CreateBodies ==
    { [amount |-> a, currency |-> c, payeeAccount |-> p, swiftCode |-> w, payeeName |-> n] :
         a \in AmountInputs, c \in CurrencyInputs, p \in AccountInputs,
         w \in SwiftInputs, n \in NameInputs }

\* the client has composed the request of slot 1: whose token it carries
\* and its body
Composed(token, body) == [IdleReq EXCEPT !.token = token, !.body = body]

InitCreate ==
    /\ users = InitUsers
    /\ transactions = <<>>
    /\ audit_logs = EmptyBag
    /\ reqs \in {[i \in Slots |-> IF i = 1 THEN Composed(t, b) ELSE IdleReq] :
                    t \in {"c1", "e1"}, b \in CreateBodies}
    /\ variant = "fourState"
    /\ dash = Unmounted
    /\ ext = NoCall
    /\ swiftAuth = ModuleLoaded(TRUE)

NextCreate ==
    \/ \E l \in BOOLEAN : CreateRequest(1, reqs[1].token, reqs[1].body, l)
    \/ \E ok \in BOOLEAN : AuditLogCallback(1, ok)

SpecCreate == InitCreate /\ [][NextCreate]_vars

\* the create request that has been answered and whose body the handler read
CreateAnswered(r) == r.kind = "create" /\ r.pc = "responded" /\ r.resp \in {201, 400, 500}

\* the guards that the body fails
FailedGuards(body) ==
    Range(validatePaymentInput(body))
    \cup (IF GreaterThan(parseFloat(body.amount), AmountLimitMilli) THEN {ErrLimit} ELSE {})

\* what the 400 answer names
Named(r) == Range(r.details) \cup {r.error}

\* C24: a create whose body fails some guard is answered 400, and the answer
\* names every guard that the body fails, the amount ceiling included.
C24_ValidationCollectsAll ==
    \A i \in Slots :
        (CreateAnswered(reqs[i]) /\ FailedGuards(reqs[i].body) # {})
        => (reqs[i].resp = 400 /\ FailedGuards(reqs[i].body) \subseteq Named(reqs[i]))

\* currency.toUpperCase(), payeeAccount.toUpperCase(), swiftCode.toUpperCase()
\* applied to a body
Normalized(body) ==
    [body EXCEPT !.currency = toUpperCase(@), !.payeeAccount = toUpperCase(@),
                 !.swiftCode = toUpperCase(@)]

\* the body passes every guard once its letters are upper case
ValidWhenNormalized(body) == FailedGuards(Normalized(body)) = {}

\* C25: a create whose body is valid up to the case of the letters of its
\* currency, payee account and SWIFT code is accepted, and the row stored
\* carries the three upper-cased; normalizing a normalized body changes
\* nothing.
C25_LowerCaseAcceptedAndNormalized ==
    \A i \in Slots :
        LET r == reqs[i]
        IN  (CreateAnswered(r) /\ ValidWhenNormalized(r.body))
            => ( /\ r.resp = 201
                 /\ r.tx \in DOMAIN transactions
                 /\ transactions[r.tx].currency = Normalized(r.body).currency
                 /\ transactions[r.tx].payee_account = Normalized(r.body).payeeAccount
                 /\ transactions[r.tx].swift_code = Normalized(r.body).swiftCode
                 /\ Normalized(Normalized(r.body)) = Normalized(r.body) )

\* the amount in thousandths
Milli(amount) == parseFloat(amount).milli

\* C26: for an amount given in whole cents, create answers 'Amount exceeds
\* maximum limit' only when the amount is above 100000.00, and, the other
\* fields being valid, exactly then; an amount of at most 100000.00 with
\* valid fields is stored; the payment form's check draws the same line.
C26_CeilingInclusive ==
    \A i \in Slots :
        LET r == reqs[i]
            a == r.body.amount
        IN  (CreateAnswered(r) /\ AMOUNT_PATTERN(a))
            => ( /\ r.error = ErrLimit => Milli(a) > AmountLimitMilli
                 /\ validatePaymentInput(r.body) = <<>>
                       => ( /\ r.error = ErrLimit <=> Milli(a) > AmountLimitMilli
                            /\ r.resp = 201 <=> Milli(a) <= AmountLimitMilli
                            /\ r.resp = 201 => 10 * transactions[r.tx].amount = Milli(a) )
                 /\ validateAmount(a) = MsgAmountExceeds <=> Milli(a) > AmountLimitMilli )

\* "100000.00" has been accepted and stored
C26_Witness ==
    \E i \in Slots :
        /\ CreateAnswered(reqs[i]) /\ reqs[i].resp = 201
        /\ reqs[i].body.amount = <<"1","0","0","0","0","0",".","0","0">>
        /\ transactions[reqs[i].tx].amount = 10000000
        /\ validateAmount(reqs[i].body.amount) = NULL

\* the digits after the decimal point of an amount
FractionDigits(amount) ==
    LET rest == Drop(amount, Len(TakeDigits(amount)))
    IN  IF rest # <<>> /\ Head(rest) = "." THEN Len(TakeDigits(Tail(rest))) ELSE 0

\* C30: a create whose amount is below 0.01 or has more than 2 fractional
\* digits is answered 400, and every stored amount is between 0.01 and
\* 100000.00.
C30_AmountRange ==
    /\ \A i \in Slots :
          LET r == reqs[i]
          IN  ( /\ CreateAnswered(r)
                /\ (Milli(r.body.amount) < 10 \/ FractionDigits(r.body.amount) > 2) )
              => r.resp = 400
    /\ \A t \in DOMAIN transactions :
          transactions[t].amount >= 1 /\ transactions[t].amount <= 10000000

-----------------------------------------------------------------------------
(* What the operations leave alone *)

\* what create has written of a payment for good
Immutable(row) ==
    <<row.customer_id, row.amount, row.currency, row.payee_account, row.swift_code,
      row.payee_name>>

\* C27: every step keeps every row of the table, at its id, with the owner,
\* amount, currency, payee account, SWIFT code and payee name it had; only
\* status and employee notes change.
C27_PaymentFieldsFrozen ==
    [][/\ Len(transactions') >= Len(transactions)
       /\ \A t \in DOMAIN transactions :
             Immutable(transactions'[t]) = Immutable(transactions[t])]_vars

\* a payment that was verified with a note and then submitted
C27_Witness ==
    \E t \in DOMAIN transactions :
        /\ transactions[t].status = "completed"
        /\ transactions[t].employee_notes = "checked"
        /\ Immutable(transactions[t]) = Immutable(CreateRow("c1", GoodBody))

\* C28: every step leaves audit_logs as it was or adds rows to it; no row
\* it held is changed or removed.
C28_AuditAppendOnly ==
    [][audit_logs \sqsubseteq audit_logs']_vars

\* the log holds the submission row and the rows of two requests
C28_Witness ==
    /\ BagCardinality(audit_logs) >= 3
    /\ \E row \in BagToSet(audit_logs) : row.action = "SWIFT_SUBMISSION"
    /\ \E row \in BagToSet(audit_logs) : row.action = RoutePath("verify")

-----------------------------------------------------------------------------
(* router.post('/register') of the two auth routers *)

SpecialChars == {"@", "$", "!", "%", "*", "?", "&"}

IsLower(c) == c \in LowerChars
IsSpecial(c) == c \in SpecialChars
IsPasswordChar(c) == IsLower(c) \/ IsUpper(c) \/ IsDigit(c) \/ IsSpecial(c)

\* /^(?=.*[a-z])(?=.*[A-Z])(?=.*\d)(?=.*[@$!%*?&])[A-Za-z\d@$!%*?&]{8,}$/
PASSWORD_REGEX(s) ==
    /\ \E k \in 1..Len(s) : IsLower(s[k])
    /\ \E k \in 1..Len(s) : IsUpper(s[k])
    /\ \E k \in 1..Len(s) : IsDigit(s[k])
    /\ \E k \in 1..Len(s) : IsSpecial(s[k])
    /\ Len(s) >= 8
    /\ \A k \in 1..Len(s) : IsPasswordChar(s[k])

\* /^[0-9]{13}$/
ID_NUMBER_REGEX(s) == Len(s) = 13 /\ \A k \in 1..Len(s) : IsDigit(s[k])

ErrFullName == "Full name must be at least 2 characters"
ErrIdNumber == "ID number must be exactly 13 digits"
ErrAccountNumber == "Account number must be 6-20 alphanumeric characters"
ErrPassword ==
    "Password must be at least 8 characters with uppercase, lowercase, number, and special character"

\* validateRegistrationInput(data): the list of error messages
validateRegistrationInput(data) ==
    (IF data.fullName = <<>> \/ Len(trim(data.fullName)) < 2
        THEN <<ErrFullName>> ELSE <<>>)
    \o (IF data.idNumber = <<>> \/ ~ID_NUMBER_REGEX(data.idNumber)
        THEN <<ErrIdNumber>> ELSE <<>>)
    \o (IF data.accountNumber = <<>> \/ ~ACCOUNT_NUMBER_REGEX(data.accountNumber)
        THEN <<ErrAccountNumber>> ELSE <<>>)
    \o (IF data.password = <<>> \/ ~PASSWORD_REGEX(data.password)
        THEN <<ErrPassword>> ELSE <<>>)

\* String.prototype.startsWith
startsWith(s, prefix) == Len(s) >= Len(prefix) /\ SubSeq(s, 1, Len(prefix)) = prefix

\* the account and id numbers of the users the seed scripts insert:
\* create-test-customer.js and createDefaultEmployees
SeededNumbers ==
    [u \in UserIds |->
        IF u = "c1"
        THEN [accountNumber |-> <<"C","U","S","T","0","0","1">>,
              idNumber |-> <<"1","2","3","4","5","6","7","8","9","0","1","2","3">>]
        ELSE IF u = "e1"
        THEN [accountNumber |-> <<"E","M","P","0","0","1">>,
              idNumber |-> <<"E","M","P","0","0","1">>]
        ELSE [accountNumber |-> <<"E","M","P","0","0","2">>,
              idNumber |-> <<"E","M","P","0","0","2">>]]

\* the users table with the columns that register reads
SeededUsers == [u \in UserIds |-> InitUsers[u] @@ SeededNumbers[u]]

\* the auth router of the camelCase schema (src/routes/auth.js) turns away
\* employee registrations; the auth router of the snake_case schema
\* (part_001:22-93), which goes with the four-state payments router, has no
\* such check
GuardsEmployeeRegistration == variant = "twoTerminal"

CodeEmployeeRegistration == "EMPLOYEE_REGISTRATION_DISABLED"
CodeAccountFormat == "INVALID_ACCOUNT_FORMAT"

\* SELECT id FROM users WHERE idNumber = ? OR accountNumber = ?
ExistingUsers(idNumber, accountNumber) ==
    {u \in DOMAIN users :
        users[u].idNumber = idNumber \/ users[u].accountNumber = accountNumber}

\* crypto.randomUUID() / result.insertId: the id of the n-th registered user
NewUserId(n) == "r" \o ToString(n)

Registered == DOMAIN users \ UserIds

\* INSERT INTO users (..., role, ...) VALUES (..., 'customer', ...)
RegisterRow(body) ==
    [role |-> "customer", is_active |-> TRUE,
     accountNumber |-> toUpperCase(body.accountNumber), idNumber |-> body.idNumber]

\* router.post('/register') behind authRateLimit; req.user is never set, so
\* the auditLog callback inserts nothing
RegisterRequest(i, body, limited) ==
    /\ NextSlot(i)
    /\ Settled
    /\ LET r0     == [NewReq("register", "none") EXCEPT !.body = body]
           errors == validateRegistrationInput(body)
       IN  IF limited THEN
               /\ reqs' = [reqs EXCEPT ![i] = RespondUnlogged(r0, 429)]
               /\ UNCHANGED users
           ELSE IF GuardsEmployeeRegistration /\ body.role \in {"employee", "admin"} THEN
               /\ reqs' = [reqs EXCEPT ![i] =
                              RespondUnlogged([r0 EXCEPT !.error = CodeEmployeeRegistration], 403)]
               /\ UNCHANGED users
           ELSE IF /\ GuardsEmployeeRegistration
                   /\ body.accountNumber # <<>>
                   /\ startsWith(toUpperCase(body.accountNumber), <<"E","M","P">>) THEN
               /\ reqs' = [reqs EXCEPT ![i] =
                              RespondUnlogged([r0 EXCEPT !.error = CodeAccountFormat], 403)]
               /\ UNCHANGED users
           ELSE IF Len(errors) > 0 THEN
               /\ reqs' = [reqs EXCEPT ![i] =
                              RespondUnlogged([r0 EXCEPT !.error = ErrValidation,
                                                         !.details = errors], 400)]
               /\ UNCHANGED users
           ELSE IF ExistingUsers(body.idNumber, body.accountNumber) # {} THEN
               /\ reqs' = [reqs EXCEPT ![i] = RespondUnlogged(r0, 409)]
               /\ UNCHANGED users
           ELSE
               /\ users' = (NewUserId(Cardinality(Registered) + 1) :> RegisterRow(body)) @@ users
               /\ reqs' = [reqs EXCEPT ![i] = RespondUnlogged(r0, 201)]
    /\ UNCHANGED <<transactions, audit_logs, variant, dash, ext, swiftAuth>>

\* an absent role, 'customer', 'employee', 'admin'
RoleInputs == {NULL, "customer", "employee", "admin"}

\* "ACC00942", "EMP999", "emp999", "EMP001", "AB"
AccountNumberInputs ==
    { OtherBody.payeeAccount, <<"E","M","P","9","9","9">>, <<"e","m","p","9","9","9">>,
      <<"E","M","P","0","0","1">>, <<"A","B">> }

\* "9001015009087", "12"
IdNumberInputs == { <<"9","0","0","1","0","1","5","0","0","9","0","8","7">>, <<"1","2">> }

\* "SecurePass123!", "password"
PasswordInputs ==
    { <<"S","e","c","u","r","e","P","a","s","s","1","2","3","!">>,
      <<"p","a","s","s","w","o","r","d">> }

\* "Test Employee"
FullNameInputs == { <<"T","e","s","t"," ","E","m","p","l","o","y","e","e">> }

RegisterBodies ==
    { [fullName |-> n, idNumber |-> d, accountNumber |-> a, password |-> p, role |-> r] :
         n \in FullNameInputs, d \in IdNumberInputs, a \in AccountNumberInputs,
         p \in PasswordInputs, r \in RoleInputs }

InitRegister ==
    /\ users = SeededUsers
    /\ transactions = <<>>
    /\ audit_logs = EmptyBag
    /\ reqs = [i \in Slots |-> IdleReq]
    /\ variant \in {"fourState", "twoTerminal"}
    /\ dash = Unmounted
    /\ ext = NoCall
    /\ swiftAuth = ModuleLoaded(TRUE)

NextRegister ==
    \/ \E i \in Slots, b \in RegisterBodies, l \in BOOLEAN : RegisterRequest(i, b, l)
    \/ \E i \in Slots, ok \in BOOLEAN : AuditLogCallback(i, ok)

SpecRegister == InitRegister /\ [][NextRegister]_vars

\* the body asks for an employee: by its role or by its account number
AsksForEmployee(body) ==
    \/ body.role \in {"employee", "admin"}
    \/ startsWith(toUpperCase(body.accountNumber), <<"E","M","P">>)

\* C29: a register request that asks for an employee and that the rate
\* limiter lets through is answered 403 and adds no user; and every user
\* that a register adds has the role customer.
C29_NoEmployeeRegistration ==
    [][/\ \A i \in Slots :
             ( /\ Arrives(i) /\ reqs'[i].kind = "register" /\ reqs'[i].resp # 429
               /\ AsksForEmployee(reqs'[i].body) )
             => (reqs'[i].resp = 403 /\ users' = users)
       /\ \A u \in DOMAIN users' :
             u \notin DOMAIN users => users'[u].role = "customer"]_vars

-----------------------------------------------------------------------------
(* The token cache: signing keys, identities, refresh and revocation *)

\* C31: with the signing key or certificate not set, a getAccessToken that
\* takes the JWT-bearer grant throws at once: it sends nothing to the token
\* endpoint, no token response is received for it, and the cached access
\* token, refresh token and expiry stay as they were.
C31_MissingKeyIsFatal ==
    [][\A c \in CallIds :
          (GetStarts(c) /\ ~swiftAuth.keys /\ swiftAuth'.calls[c].grant = "jwt")
          => ( /\ swiftAuth'.calls[c].pc = "threw"
               /\ Cache(swiftAuth') = Cache(swiftAuth)
               /\ swiftAuth'.issued = swiftAuth.issued
               /\ \A d \in CallIds :
                     swiftAuth'.calls[d].pc = "token_wait" => CallOf(d).pc = "token_wait" )]_vars

\* a getAccessToken has thrown in createJwt
C31_Witness ==
    \E c \in CallIds :
        /\ ~swiftAuth.keys
        /\ CallOf(c).op = "get" /\ CallOf(c).grant = "jwt" /\ CallOf(c).pc = "threw"

-----------------------------------------------------------------------------
(* Reject, reading, and the trail of a completed payment *)

\* request i is a reject whose UPDATE runs in this step
RejectSucceeds(i) ==
    /\ reqs[i].kind = "verify" /\ reqs[i].pc = "update" /\ reqs[i].verified = "false"
    /\ reqs'[i].resp = 200

\* C32: after a successful reject with notes N the stored transaction has
\* status rejected and employee notes N, null when no notes were given, and
\* no call to the external service is made.
C32_RejectStoresNotes ==
    [][\A i \in Slots :
          RejectSucceeds(i)
          => ( /\ transactions'[reqs[i].tx].status = "rejected"
               /\ transactions'[reqs[i].tx].employee_notes = NotesOrNull(reqs[i].notes)
               /\ ext' = ext )]_vars

\* a SELECT for one id that leaves the caller out
SelectForAnyReader(id, user) ==
    IF id \in DOMAIN transactions /\ transactions[id].customer_id \in DOMAIN users
    THEN <<transactions[id]>> ELSE <<>>

\* SELECT ... FROM transactions t JOIN users u ON t.customer_id = u.id
\* WHERE t.id = ? , and for a customer: AND t.customer_id = ?
SelectForReader(id, user) ==
    IF /\ id \in DOMAIN transactions
       /\ transactions[id].customer_id \in DOMAIN users
       /\ users[user].role = "customer" => transactions[id].customer_id = user
    THEN <<transactions[id]>> ELSE <<>>

ErrNotFound == "Transaction not found"

\* router.get('/:transactionId') for req.user = user: the status code, the
\* error and the transaction of the JSON body
GetTransactionReply(user, tx) ==
    LET rows == SelectForReader(tx, user)
    IN  IF variant = "twoTerminal" /\ ~IsUuid(tx)
        THEN [resp |-> 400, error |-> "Invalid transaction ID format", row |-> NoRow]
        ELSE IF Len(rows) = 0
        THEN [resp |-> 404, error |-> ErrNotFound, row |-> NoRow]
        ELSE [resp |-> 200, error |-> "", row |-> rows[1]]

\* router.get('/:transactionId', ...) behind authenticateToken and auditLog
GetTransactionRequest(i, token, tx) ==
    /\ NextSlot(i)
    /\ Settled
    /\ LET r0    == NewReq("get", token)
           auth  == authenticateToken(token)
           r1    == [r0 EXCEPT !.user = auth.user, !.tx = tx]
       IN  reqs' = [reqs EXCEPT ![i] =
               IF auth.code # 0 THEN RespondUnlogged(r0, auth.code)
               ELSE LET reply == GetTransactionReply(auth.user, tx)
                    IN  Respond([r1 EXCEPT !.error = reply.error, !.row = reply.row],
                                reply.resp)]
    /\ UNCHANGED <<users, transactions, audit_logs, variant, dash, ext, swiftAuth>>

RECURSIVE Descending(_)
\* ORDER BY created_at DESC on the ids of the set S
Descending(S) ==
    IF S = {} THEN <<>>
    ELSE LET m == CHOOSE x \in S : \A y \in S : y <= x
         IN  <<m>> \o Descending(S \ {m})

\* LIMIT ? OFFSET ?
LimitOffset(seq, limit, offset) ==
    SubSeq(seq, offset + 1, IF offset + limit < Len(seq) THEN offset + limit ELSE Len(seq))

\* SELECT ... FROM transactions WHERE customer_id = ? [AND status = ?]
SelectByCustomer(user, status) ==
    {id \in DOMAIN transactions :
        /\ transactions[id].customer_id = user
        /\ status # NULL => transactions[id].status = status}

\* router.get('/my-transactions', requireCustomer, ...)
MyTransactionsRequest(i, token, status, page, limit) ==
    /\ NextSlot(i)
    /\ Settled
    /\ LET r0   == NewReq("my", token)
           auth == authenticateToken(token)
           r1   == [r0 EXCEPT !.user = auth.user]
           role == requireCustomer(auth.user)
       IN  reqs' = [reqs EXCEPT ![i] =
               IF auth.code # 0 THEN RespondUnlogged(r0, auth.code)
               ELSE IF role # 0 THEN Respond(r1, role)
               ELSE Respond([r1 EXCEPT !.list =
                                LimitOffset(Descending(SelectByCustomer(auth.user, status)),
                                            limit, (page - 1) * limit)], 200)]
    /\ UNCHANGED <<users, transactions, audit_logs, variant, dash, ext, swiftAuth>>

\* the seeded users and a second customer, registered earlier
ReadUsers == ("c2" :> [role |-> "customer", is_active |-> TRUE]) @@ InitUsers

ReadTokens == {"none", "c1", "c2", "e1"}

\* the path parameter: not a UUID, the id of a row, or a UUID of no row
ReadTxParams == 0..(MaxTx + 1)

\* ?status=, ?page=, ?limit=
StatusFilters == {NULL, "pending"}
Pages == {1, 2}
Limits == {1, 10}

\* one or two payments, each created by one of the two customers
ReadTables ==
    { <<CreateRow(a, GoodBody)>> : a \in {"c1", "c2"} }
    \cup { <<CreateRow(a, GoodBody), CreateRow(b, OtherBody)>> : a, b \in {"c1", "c2"} }

InitRead ==
    /\ users = ReadUsers
    /\ transactions \in ReadTables
    /\ audit_logs = EmptyBag
    /\ reqs = [i \in Slots |-> IdleReq]
    /\ variant \in {"fourState", "twoTerminal"}
    /\ dash = Unmounted
    /\ ext = NoCall
    /\ swiftAuth = ModuleLoaded(TRUE)

NextRead ==
    \/ \E i \in Slots, t \in ReadTokens, x \in ReadTxParams : GetTransactionRequest(i, t, x)
    \/ \E i \in Slots, t \in ReadTokens, s \in StatusFilters, p \in Pages, l \in Limits :
          MyTransactionsRequest(i, t, s, p, l)
    \/ \E i \in Slots, t \in ReadTokens : CreateRequest(i, t, OtherBody, FALSE)
    \/ \E i \in Slots, ok \in BOOLEAN : AuditLogCallback(i, ok)

SpecRead == InitRead /\ [][NextRead]_vars

\* a well-formed id of no row
UnknownId == Len(transactions) + 1

\* what the caller sees of a get-transaction request
Seen(r) == [resp |-> r.resp, error |-> r.error, row |-> r.row]

SeqRange(seq) == {seq[k] : k \in DOMAIN seq}

\* C33: get-transaction returns a transaction to a customer only if the
\* customer owns it, and answers for another customer's transaction what it
\* answers for an id of no transaction; my-transactions lists only
\* transactions of the caller; an employee is returned every transaction.
C33_CustomerReadsOwnOnly ==
    [][\A i \in Slots :
          LET r == reqs'[i]
          IN  (Arrives(i) /\ r.user # NoUser)
              => ( /\ (r.kind = "get" /\ users[r.user].role = "customer")
                      => ( /\ r.resp = 200
                              => ( /\ r.tx \in DOMAIN transactions
                                   /\ r.row = transactions[r.tx]
                                   /\ transactions[r.tx].customer_id = r.user )
                           /\ (r.tx \in DOMAIN transactions
                                 /\ transactions[r.tx].customer_id # r.user)
                              => ( /\ r.resp = 404
                                   /\ Seen(r) = GetTransactionReply(r.user, UnknownId) ) )
                   /\ (r.kind = "my" /\ r.resp = 200)
                      => \A id \in SeqRange(r.list) :
                            id \in DOMAIN transactions
                               /\ transactions[id].customer_id = r.user
                   /\ (r.kind = "get" /\ users[r.user].role = "employee"
                         /\ r.tx \in DOMAIN transactions)
                      => (r.resp = 200 /\ r.row = transactions[r.tx]) )]_vars

\* customer c1 has asked for a payment of c2 and been answered not found,
\* while the table holds a payment of c1 too
C33_Witness ==
    /\ \E i \in Slots :
          /\ reqs[i].kind = "get" /\ reqs[i].user = "c1" /\ reqs[i].resp = 404
          /\ reqs[i].tx \in DOMAIN transactions
          /\ transactions[reqs[i].tx].customer_id = "c2"
    /\ \E id \in DOMAIN transactions : transactions[id].customer_id = "c1"

-----------------------------------------------------------------------------
(* The token cache after a failed refresh, across identities and revocation *)

\* a refresh-token grant with refresh token t has failed
RefreshFailed(t) ==
    \E d \in CallIds :
        CallOf(d).pc = "threw" /\ CallOf(d).grant = "refresh" /\ CallOf(d).sent = t

\* C34: a refresh token whose grant has failed is not what the next
\* getAccessToken sends again: the call goes for a token through the
\* JWT-bearer grant instead.
C34_FailedRefreshRecovers ==
    [][\A c \in CallIds :
          (GetStarts(c) /\ swiftAuth'.calls[c].pc # "returned"
             /\ RefreshFailed(swiftAuth.refreshToken) /\ swiftAuth.refreshToken # NoToken)
          => swiftAuth'.calls[c].grant = "jwt"]_vars

RECURSIVE IssuedFor(_)
\* the subject of the assertion that token n goes back to: that of the
\* JWT-bearer grant that obtained it, or of the token whose refresh token
\* obtained it; "unknown" for a token held when the behaviour starts
IssuedFor(n) ==
    IF \E c \in CallIds : CallOf(c).pc = "returned" /\ CallOf(c).grant = "jwt"
                             /\ CallOf(c).result = n
    THEN LET c == CHOOSE c \in CallIds :
                     CallOf(c).pc = "returned" /\ CallOf(c).grant = "jwt"
                        /\ CallOf(c).result = n
         IN  CallOf(c).sub
    ELSE IF \E c \in CallIds : CallOf(c).pc = "returned" /\ CallOf(c).grant = "refresh"
                                  /\ CallOf(c).result = n
    THEN LET c == CHOOSE c \in CallIds :
                     CallOf(c).pc = "returned" /\ CallOf(c).grant = "refresh"
                        /\ CallOf(c).result = n
         IN  IssuedFor(CallOf(c).sent)
    ELSE "unknown"

\* C35: the access token a getAccessToken(subjectDn) has returned goes back
\* to an assertion whose subject is that subjectDn.
C35_TokenBoundToIdentity ==
    \A c \in CallIds :
        (CallOf(c).op = "get" /\ CallOf(c).pc = "returned"
           /\ IssuedFor(CallOf(c).result) # "unknown")
        => IssuedFor(CallOf(c).result) = CallOf(c).sub

\* call d is a disposeAccessToken whose revocation has succeeded
Revoked(d) ==
    CallOf(d).op = "dispose" /\ CallOf(d).pc = "returned" /\ CallOf(d).sent # NoToken

\* C36: the token response of a getAccessToken that started before a
\* revocation that has since succeeded leaves no token in the cache; and the
\* access token that a successful revocation clears from the cache is the
\* one that was sent to the revocation endpoint.
C36_RevocationNotUndone ==
    [][\A c \in CallIds :
          /\ \A d \in CallIds :
                (CallOf(c).pc = "token_wait" /\ c < d /\ Revoked(d)
                   /\ swiftAuth'.calls[c].pc = "returned")
                => swiftAuth'.accessToken = NoToken
          /\ (CallOf(c).pc = "revoke_wait" /\ swiftAuth'.calls[c].pc = "returned")
             => swiftAuth.accessToken \in {NoToken, CallOf(c).sent} ]_vars

-----------------------------------------------------------------------------
(* The trail of a completed payment *)

\* no request that writes transaction t is between its guard and its response
NoneWriting(t) == \A i \in Slots : InFlight(reqs[i]) => reqs[i].tx # t

\* C37: whenever no request on it is under way, a transaction whose stored
\* status is completed has a SWIFT_SUBMISSION audit row that names it.
C37_CompletedHasSubmissionEntry ==
    \A t \in DOMAIN transactions :
        (transactions[t].status = "completed" /\ NoneWriting(t))
        => \E row \in BagToSet(audit_logs) :
              row.action = "SWIFT_SUBMISSION" /\ row.details.transactionId = t

-----------------------------------------------------------------------------
(* The dashboard's Submit to SWIFT handler *)

\* the answers of the external API that make the three kinds of result: a
\* match, no match, a failed POST
GateOutcomes == {o \in ExtOutcomes : o.kind = "network_error" \/ o.match # NULL}

\* the pre-validate and verify flow and the submit handler
NextSubmitGate ==
    \/ LoadDashboardData
    \/ \E t \in TxIds : HandleVerifyClick(t)
    \/ \E t \in TxIds, o \in GateOutcomes : AccountCheck(t, o)
    \/ \E t \in TxIds, o \in GateOutcomes : ProviderCheck(t, o)
    \/ \E t \in TxIds : DashVerifyRequest(t, "verify")
    \/ \E t \in TxIds : DashVerifyUpdate(t, "verify")
    \/ \E i \in Slots, ok \in BOOLEAN : AuditLogCallback(i, ok)
    \/ \E t \in TxIds : HandleSubmitToSwift(t)
    \/ \E t \in TxIds, now \in Times : DashSubmitRequest(t, now)
    \/ \E i \in Slots : SubmitUpdate(i)
    \/ \E t \in TxIds, ok \in BOOLEAN : DashSubmitAudit(t, ok)

SpecSubmitGate == InitDash /\ [][NextSubmitGate]_vars

\* handleSubmitToSwift goes on to its request for t in this step
SubmitGoesOn(t) ==
    dash.flow[<<t, "submit">>].pc = "idle" /\ dash'.flow[<<t, "submit">>].pc = "submit"

\* loadDashboardData has received its data in this step
Reloaded ==
    /\ dash'.loads < dash.loads
    /\ ValidToken(dash.user.id) /\ users[dash.user.id].role = "employee"

====
